---- MODULE Spec2Model ----
(***************************************************************************)
(* ClassifierAgent of agents/classifier_agent.py: input validation, the    *)
(* pattern screener, the prompt, the parser of the collaborator's reply,   *)
(* the convertibility decision, the result dictionary and its metrics, the *)
(* JSON envelope and batch classification; and classify_code of            *)
(* routes/classify.py, which answers a request from the envelope.          *)
(*                                                                         *)
(* A Python str is a sequence of one-character strings.  None is the       *)
(* empty tuple where a value of another shape is expected (Optional[bool]  *)
(* is <<>> or <<b>>); for a str argument None is the value NoneStr.         *)
(* A float that the code rounds to 3 decimals is an integer number of      *)
(* thousandths.                                                            *)
(***************************************************************************)
EXTENDS Integers, Sequences, FiniteSets, TLC

VARIABLES
    pc,               \* position in batch_classify / get_json_result / classify_and_summarize
    code,             \* argument of the current classify_and_summarize call
    pattern_analysis, \* PatternAnalysis of the current call
    raw_result,       \* text returned by the collaborator
    result,           \* ClassificationResult (structured_result, then final_result: one object)
    result_dict,      \* dict returned by classify_and_summarize
    raised,           \* exception leaving classify_and_summarize: <<>> or <<exception>>
    envelope,         \* dict returned by get_json_result
    code_snippets,    \* argument of batch_classify
    i,                \* loop index of batch_classify (0-based)
    results,          \* list built by batch_classify
    prompt,           \* text submitted to the collaborator by the current call: <<>> or <<prompt>>
    classifier,       \* routes/classify.py: the module's global classifier is set
    response,         \* routes/classify.py: <<>> or <<the HTTP response of classify_code>>
    instructions,     \* config_data['agents']['classifier']['instructions'] ("" if absent)
    agent,            \* self.agent: the instructions it was built with, and which build it is
    last_instructions_hash, \* self._last_instructions_hash
    current_hash,     \* local of _check_and_reload_config: <<>> or <<hash>>
    requests,         \* the requests sent to the collaborator so far, oldest first
    writes,           \* how many calls of update_agent_instructions there have been
    update            \* the last call of update_agent_instructions: <<>> or <<its record>>

\* the state of routes/classify.py
route_vars == <<classifier, response>>

\* the instruction store, the agent and the cached marker
config_vars == <<instructions, agent, last_instructions_hash, current_hash>>

\* the bookkeeping of the writer of the instruction store
writer_vars == <<writes, update>>

vars == <<pc, code, pattern_analysis, raw_result, result, result_dict, raised,
          envelope, code_snippets, i, results, prompt, route_vars,
          config_vars, requests, writer_vars>>

---------------------------------------------------------------------------
(* Python str operations *)

NoneStr == <<"None">>

Whitespace == {" ", "\t", "\n"}

UpperLetters == <<"A","B","C","D","E","F","G","H","I","J","K","L","M",
                  "N","O","P","Q","R","S","T","U","V","W","X","Y","Z">>

LowerLetters == <<"a","b","c","d","e","f","g","h","i","j","k","l","m",
                  "n","o","p","q","r","s","t","u","v","w","x","y","z">>

Digits == <<"0","1","2","3","4","5","6","7","8","9">>

Range(f) == {f[k] : k \in DOMAIN f}

\* \w of the re module
WordChars == Range(UpperLetters) \cup Range(LowerLetters) \cup Range(Digits) \cup {"_"}

LowerChar(c) ==
    IF \E k \in DOMAIN UpperLetters : UpperLetters[k] = c
    THEN LowerLetters[CHOOSE k \in DOMAIN UpperLetters : UpperLetters[k] = c]
    ELSE c

\* s.lower()
Lower(s) == [k \in DOMAIN s |-> LowerChar(s[k])]

UpperChar(c) ==
    IF \E k \in DOMAIN LowerLetters : LowerLetters[k] = c
    THEN UpperLetters[CHOOSE k \in DOMAIN LowerLetters : LowerLetters[k] = c]
    ELSE c

\* s.upper()
Upper(s) == [k \in DOMAIN s |-> UpperChar(s[k])]

RECURSIVE LStripChars(_, _)
\* s.lstrip(chars)
LStripChars(s, chars) ==
    IF s # <<>> /\ Head(s) \in chars THEN LStripChars(Tail(s), chars) ELSE s

RECURSIVE RStripChars(_, _)
\* s.rstrip(chars)
RStripChars(s, chars) ==
    IF s # <<>> /\ s[Len(s)] \in chars
    THEN RStripChars(SubSeq(s, 1, Len(s) - 1), chars)
    ELSE s

\* s.strip()
Strip(s) == RStripChars(LStripChars(s, Whitespace), Whitespace)

\* s.startswith(prefix)
StartsWith(s, prefix) ==
    Len(prefix) <= Len(s) /\ SubSeq(s, 1, Len(prefix)) = prefix

\* s.endswith(suffix)
EndsWith(s, suffix) ==
    Len(suffix) <= Len(s) /\ SubSeq(s, Len(s) - Len(suffix) + 1, Len(s)) = suffix

RECURSIVE SplitOn(_, _)
\* s.split(sep) for a one-character sep
SplitOn(s, sep) ==
    IF \E k \in DOMAIN s : s[k] = sep
    THEN LET p == CHOOSE k \in DOMAIN s : s[k] = sep /\ \A m \in 1..(k - 1) : s[m] # sep
         IN  <<SubSeq(s, 1, p - 1)>> \o SplitOn(SubSeq(s, p + 1, Len(s)), sep)
    ELSE <<s>>

\* s.split(sep, 1) for a one-character sep
SplitOnce(s, sep) ==
    IF \E k \in DOMAIN s : s[k] = sep
    THEN LET p == CHOOSE k \in DOMAIN s : s[k] = sep /\ \A m \in 1..(k - 1) : s[m] # sep
         IN  <<SubSeq(s, 1, p - 1), SubSeq(s, p + 1, Len(s))>>
    ELSE <<s>>

RECURSIVE Join(_, _)
\* sep.join(parts)
Join(parts, sep) ==
    IF parts = <<>> THEN <<>>
    ELSE IF Len(parts) = 1 THEN parts[1]
    ELSE parts[1] \o sep \o Join(Tail(parts), sep)

\* [x for x in s if keep(x)] for a sequence s, keep given as a set of indices
RECURSIVE SelectIdx(_, _, _)
SelectIdx(s, keep, k) ==
    IF k > Len(s) THEN <<>>
    ELSE (IF k \in keep THEN <<s[k]>> ELSE <<>>) \o SelectIdx(s, keep, k + 1)

\* re.sub(r"[*_]+", "", s)
RemoveEmphasis(s) == SelectIdx(s, {k \in DOMAIN s : s[k] \notin {"*", "_"}}, 1)

\* re.search(r"\b" + word + r"\b", s, re.I) is not None, for a word of \w characters
SearchWord(word, s) ==
    \E p \in 1..(Len(s) - Len(word) + 1) :
        /\ Lower(SubSeq(s, p, p + Len(word) - 1)) = Lower(word)
        /\ (p = 1 \/ s[p - 1] \notin WordChars)
        /\ (p + Len(word) > Len(s) \/ s[p + Len(word)] \notin WordChars)

---------------------------------------------------------------------------
(* Outcome of a call that may raise: the value returned, or the exception *)

Ok(v) == [raised |-> <<>>, value |-> v]

Raise(e) == [raised |-> <<e>>, value |-> <<>>]

\* seq[k] of Python (0-based k): IndexError when out of range
Item(seq, k) ==
    IF k + 1 \in DOMAIN seq THEN Ok(seq[k + 1]) ELSE Raise("IndexError")

---------------------------------------------------------------------------
(* ClassificationResult and PatternAnalysis *)

S_unknown == <<"u","n","k","n","o","w","n">>

S_ai_only == <<"a","i","_","o","n","l","y">>

S_ai_with_pattern_context == <<"a","i","_","w","i","t","h","_","p","a","t","t","e","r","n","_",
                               "c","o","n","t","e","x","t">>

S_pattern_override == <<"p","a","t","t","e","r","n","_","o","v","e","r","r","i","d","e">>

\* PatternAnalysis(): the dataclass defaults
DefaultPatternAnalysis ==
    [likely_iac |-> FALSE,
     detected_tool |-> S_unknown,
     confidence_score |-> 0,
     pattern_matches |-> <<>>,
     strongest_indicators |-> <<>>]

\* ClassificationResult(): the dataclass defaults
DefaultClassificationResult ==
    [classification |-> <<>>,
     summary |-> <<>>,
     detailed_analysis |-> <<>>,
     resources |-> <<>>,
     key_operations |-> <<>>,
     dependencies |-> <<>>,
     configuration_details |-> <<>>,
     complexity_level |-> <<>>,
     convertible |-> TRUE,
     conversion_notes |-> <<>>,
     pattern_analysis |-> DefaultPatternAnalysis,
     confidence_source |-> S_ai_only,
     override_applied |-> FALSE,
     override_reason |-> <<>>,
     original_ai_decision |-> <<>>]

---------------------------------------------------------------------------
(* ResponseParser: _format_agent_response and its helpers *)

\* section_patterns, in the dict's iteration order: <<label, section>>
SectionPatterns ==
    << <<  <<"t","o","o","l","/","l","a","n","g","u","a","g","e",":">>, "classification" >>,
       <<  <<"s","u","m","m","a","r","y",":">>, "summary" >>,
       <<  <<"d","e","t","a","i","l","e","d"," ","a","n","a","l","y","s","i","s",":">>,
           "detailed_analysis" >>,
       <<  <<"r","e","s","o","u","r","c","e","s","/","c","o","m","p","o","n","e","n","t","s",":">>,
           "resources" >>,
       <<  <<"k","e","y"," ","o","p","e","r","a","t","i","o","n","s",":">>, "key_operations" >>,
       <<  <<"d","e","p","e","n","d","e","n","c","i","e","s",":">>, "dependencies" >>,
       <<  <<"c","o","n","f","i","g","u","r","a","t","i","o","n"," ","d","e","t","a","i","l","s",":">>,
           "configuration_details" >>,
       <<  <<"c","o","m","p","l","e","x","i","t","y"," ","l","e","v","e","l",":">>,
           "complexity_level" >>,
       <<  <<"c","o","n","v","e","r","t","i","b","l","e",":">>, "convertible" >>,
       <<  <<"c","o","n","v","e","r","s","i","o","n"," ","n","o","t","e","s",":">>,
           "conversion_notes" >> >>

NoSection == "None"

\* _identify_section_type(line): the section, or NoSection for None
identify_section_type(line) ==
    LET clean_line == Lower(Strip(LStripChars(line, {"*", " "})))
        hits == {k \in DOMAIN SectionPatterns : StartsWith(clean_line, SectionPatterns[k][1])}
    IN  IF hits = {} THEN NoSection
        ELSE SectionPatterns[CHOOSE k \in hits : \A m \in hits : k <= m][2]

\* _extract_line_value(line)
extract_line_value(line) ==
    LET cleaned == Strip(RemoveEmphasis(line))
        parts == SplitOnce(cleaned, ":")
    IN  IF Len(parts) = 2 THEN Strip(parts[2]) ELSE <<>>

\* text.split()[0]: the first whitespace-delimited token, IndexError when there is none
first_token(text) ==
    LET rest == LStripChars(text, Whitespace)
        stops == {k \in DOMAIN rest : rest[k] \in Whitespace}
    IN  IF rest = <<>> THEN Raise("IndexError")
        ELSE IF stops = {} THEN Ok(rest)
        ELSE Ok(SubSeq(rest, 1, (CHOOSE k \in stops : \A m \in stops : k <= m) - 1))

\* a variant that reads the first token of the text without guarding the empty text
parse_yes_no_first_token(text) ==
    LET token == first_token(text)
    IN  IF token.raised # <<>> THEN token
        ELSE Ok(token.value \in {<<"y","e","s">>, <<"t","r","u","e">>, <<"1">>})

\* _parse_yes_no(text): an Outcome
parse_yes_no(text) ==
    IF text = <<>> THEN Ok(FALSE)
    ELSE Ok(SearchWord(<<"y","e","s">>, text))

\* the character U+2022 (bullet), which the module's character set cannot spell
Bullet == "U+2022"

BulletMarkers == {"-", Bullet, "*"}

RECURSIVE ListItems(_)
\* the loop of _populate_result_section that collects items from the content lines
ListItems(content) ==
    IF content = <<>> THEN <<>>
    ELSE LET line == Strip(Head(content))
         IN  (IF line # <<>> /\ line[1] \in BulletMarkers
              THEN <<Strip(Tail(line))>>
              ELSE IF line # <<>> /\ line[1] # "["
              THEN <<line>>
              ELSE <<>>) \o ListItems(Tail(content))

\* clean_items = [item.strip() for item in items if item.strip()]
CleanItems(items) ==
    LET stripped == [k \in DOMAIN items |-> Strip(items[k])]
    IN  SelectIdx(stripped, {k \in DOMAIN stripped : stripped[k] # <<>>}, 1)

JoinedSections == {"summary", "detailed_analysis", "dependencies",
                   "configuration_details", "complexity_level", "conversion_notes"}

\* _populate_result_section(result, section, content): an Outcome holding the result
populate_result_section(res, section, content) ==
    IF content = <<>> THEN Ok(res)
    ELSE IF section = "classification"
    THEN LET first == Item(content, 0)
         IN  IF first.raised # <<>> THEN first
             ELSE Ok([res EXCEPT !.classification = Strip(first.value)])
    ELSE IF section \in JoinedSections
    THEN Ok([res EXCEPT ![section] = Strip(Join(content, <<" ">>))])
    ELSE IF section \in {"resources", "key_operations"}
    THEN Ok([res EXCEPT ![section] = CleanItems(ListItems(content))])
    ELSE IF section = "convertible"
    THEN LET verdict == parse_yes_no(Strip(Lower(Join(content, <<" ">>))))
         IN  IF verdict.raised # <<>> THEN verdict
             ELSE Ok([res EXCEPT !.convertible = verdict.value])
    ELSE Ok(res)

\* lines = [line.strip() for line in raw_content.strip().split('\n') if line.strip()]
NonBlankLines(raw_content) ==
    LET split == SplitOn(Strip(raw_content), "\n")
        stripped == [k \in DOMAIN split |-> Strip(split[k])]
    IN  SelectIdx(stripped, {k \in DOMAIN stripped : stripped[k] # <<>>}, 1)

RECURSIVE ScanLines(_, _, _, _)
\* the for loop of _format_agent_response and the flush after it: an Outcome
ScanLines(lines, res, current_section, current_content) ==
    IF lines = <<>>
    THEN IF current_section # NoSection
         THEN populate_result_section(res, current_section, current_content)
         ELSE Ok(res)
    ELSE LET line == Head(lines)
             section_type == identify_section_type(line)
         IN  IF section_type # NoSection
             THEN LET flushed == IF current_section # NoSection
                                 THEN populate_result_section(res, current_section,
                                                              current_content)
                                 ELSE Ok(res)
                  IN  IF flushed.raised # <<>> THEN flushed
                      ELSE ScanLines(Tail(lines), flushed.value, section_type,
                                     <<extract_line_value(line)>>)
             ELSE IF current_section # NoSection /\ line # <<>>
             THEN ScanLines(Tail(lines), res, current_section, Append(current_content, line))
             ELSE ScanLines(Tail(lines), res, current_section, current_content)

\* _format_agent_response(raw_content): an Outcome holding the ClassificationResult
format_agent_response(raw_content) ==
    ScanLines(NonBlankLines(raw_content), DefaultClassificationResult, NoSection, <<>>)

---------------------------------------------------------------------------
(* PatternScreener: the rule table and _pattern_based_screening *)

T_terraform == <<"t","e","r","r","a","f","o","r","m">>

T_chef == <<"c","h","e","f">>

T_puppet == <<"p","u","p","p","e","t">>

T_ansible == <<"a","n","s","i","b","l","e">>

T_cloudformation == <<"c","l","o","u","d","f","o","r","m","a","t","i","o","n">>

T_docker == <<"d","o","c","k","e","r">>

T_kubernetes == <<"k","u","b","e","r","n","e","t","e","s">>

T_bash == <<"b","a","s","h">>

T_powershell == <<"p","o","w","e","r","s","h","e","l","l">>

\* self.iac_patterns in iteration order: the tool, how many patterns and keywords it has
iac_patterns ==
    << [tool |-> T_terraform,      patterns |-> 6, keywords |-> 3],
       [tool |-> T_chef,           patterns |-> 6, keywords |-> 4],
       [tool |-> T_puppet,         patterns |-> 7, keywords |-> 4],
       [tool |-> T_ansible,        patterns |-> 6, keywords |-> 4],
       [tool |-> T_cloudformation, patterns |-> 5, keywords |-> 3],
       [tool |-> T_docker,         patterns |-> 8, keywords |-> 3],
       [tool |-> T_kubernetes,     patterns |-> 5, keywords |-> 4],
       [tool |-> T_bash,           patterns |-> 6, keywords |-> 4],
       [tool |-> T_powershell,     patterns |-> 6, keywords |-> 3] >>

RECURSIVE SumSeq(_)
SumSeq(s) == IF s = <<>> THEN 0 ELSE Head(s) + SumSeq(Tail(s))

\* round(n / d) to the nearest integer, an exact half going to the even neighbour
RoundDiv(n, d) ==
    LET q == n \div d
        r == n % d
    IN  IF 2 * r < d THEN q
        ELSE IF 2 * r > d THEN q + 1
        ELSE IF (q % 2) = 0 THEN q ELSE q + 1

\* a variant that counts a pattern once however often it occurs
tool_scores_patterns_once(found) ==
    [t \in DOMAIN iac_patterns |->
        Cardinality({k \in DOMAIN found[t].patterns : found[t].patterns[k] > 0})
        + SumSeq(found[t].keywords)]

\* A snippet's text as the regular expressions of the rule table see it:
\* found[t].patterns[k] is len(re.findall(pattern k of tool t, code)) and
\* found[t].keywords[k] is 1 iff re.search finds keyword k of tool t, else 0.
tool_scores(found) ==
    [t \in DOMAIN iac_patterns |-> SumSeq(found[t].patterns) + SumSeq(found[t].keywords)]

RECURSIVE tool_indicators(_, _, _, _)
\* the labels one tool appends to found_indicators: its patterns first, then its keywords
tool_indicators(t, f, kind, k) ==
    IF kind = "pattern"
    THEN IF k > Len(f.patterns) THEN tool_indicators(t, f, "keyword", 1)
         ELSE (IF f.patterns[k] > 0 THEN << <<iac_patterns[t].tool, "pattern", k>> >> ELSE <<>>)
              \o tool_indicators(t, f, "pattern", k + 1)
    ELSE IF k > Len(f.keywords) THEN <<>>
         ELSE (IF f.keywords[k] > 0 THEN << <<iac_patterns[t].tool, "keyword", k>> >> ELSE <<>>)
              \o tool_indicators(t, f, "keyword", k + 1)

RECURSIVE found_indicators(_, _)
found_indicators(found, t) ==
    IF t > Len(iac_patterns) THEN <<>>
    ELSE tool_indicators(t, found[t], "pattern", 1) \o found_indicators(found, t + 1)

\* The pairs <<best, total>>, best <= 40, whose dominance * match_strength is exactly a
\* half thousandth and which round(_, 3) sends to the odd neighbour: the product of the
\* two doubles lies on that side of the half.  Every other half goes to the even one.
ConfidenceTiesToOdd ==
    {<<9, 80>>, <<13, 80>>, <<18, 160>>, <<19, 80>>, <<21, 80>>, <<23, 80>>, <<26, 160>>,
     <<27, 240>>, <<36, 320>>, <<37, 80>>, <<38, 160>>, <<39, 80>>, <<39, 240>>}

\* a variant that reports the dominance alone, without the match strength
confidence_of_dominance_only(best, total) ==
    RoundDiv(1000 * best, IF total > 1 THEN total ELSE 1)

\* a variant whose match_strength is best / 5.0 without the cap at 1.0
confidence_of_uncapped(best, total) ==
    RoundDiv(200 * best * best, IF total > 1 THEN total ELSE 1)

\* round(dominance * match_strength, 3) in thousandths, for best > 0:
\* dominance = best / max(total, 1), match_strength = min(best / 5.0, 1.0)
confidence_of(best, total) ==
    LET t == IF total > 1 THEN total ELSE 1
        n == IF best < 5 THEN 200 * best * best ELSE 1000 * best
        q == n \div t
    IN  IF 2 * (n % t) # t THEN RoundDiv(n, t)
        ELSE IF ((q % 2) = 1) = (<<best, total>> \in ConfidenceTiesToOdd) THEN q ELSE q + 1

\* a variant that takes a single hit for noise: likely_iac and a tool need two hits
pattern_based_screening_two_hits(found) ==
    LET matches == tool_scores(found)
        top == CHOOSE t \in DOMAIN matches :
                   /\ \A u \in DOMAIN matches : matches[u] <= matches[t]
                   /\ \A u \in 1..(t - 1) : matches[u] < matches[t]
        best == matches[top]
    IN  [likely_iac |-> best > 1,
         detected_tool |-> IF best > 1 THEN iac_patterns[top].tool ELSE S_unknown,
         confidence_score |-> IF best = 0 THEN 0 ELSE confidence_of(best, SumSeq(matches)),
         pattern_matches |-> matches,
         strongest_indicators |-> <<>>]

\* a variant in which the last of the tools with the highest score wins
pattern_based_screening_last_wins(found) ==
    LET matches == tool_scores(found)
        top == CHOOSE t \in DOMAIN matches :
                   /\ \A u \in DOMAIN matches : matches[u] <= matches[t]
                   /\ \A u \in (t + 1)..Len(matches) : matches[u] < matches[t]
        best == matches[top]
    IN  [likely_iac |-> best > 0,
         detected_tool |-> IF best > 0 THEN iac_patterns[top].tool ELSE S_unknown,
         confidence_score |-> IF best = 0 THEN 0 ELSE confidence_of(best, SumSeq(matches)),
         pattern_matches |-> matches,
         strongest_indicators |-> <<>>]

\* _pattern_based_screening(code), from the matches of the rule table in code
pattern_based_screening(found) ==
    LET matches == tool_scores(found)
        top == CHOOSE t \in DOMAIN matches :
                   /\ \A u \in DOMAIN matches : matches[u] <= matches[t]
                   /\ \A u \in 1..(t - 1) : matches[u] < matches[t]
        best == matches[top]
        total_matches == SumSeq(matches)
        indicators == found_indicators(found, 1)
    IN  [likely_iac |-> best > 0,
         detected_tool |-> IF best > 0 THEN iac_patterns[top].tool ELSE S_unknown,
         confidence_score |-> IF best = 0 THEN 0 ELSE confidence_of(best, total_matches),
         pattern_matches |-> matches,
         strongest_indicators |-> SubSeq(indicators, 1, IF Len(indicators) < 5
                                                        THEN Len(indicators) ELSE 5)]

---------------------------------------------------------------------------
(* Formatting a confidence with two decimals *)

\* the thousandths k ending in 5 for which f"{k/1000:.2f}" rounds up: the double nearest
\* to k/1000 lies at or above it (an exact half goes to the even digit)
HalfUp2f ==
    {5, 25, 35, 55, 65, 85, 95, 115, 135, 165, 195, 225, 255, 265, 275, 315, 325, 335, 375,
     385, 395, 405, 445, 455, 465, 505, 515, 525, 535, 545, 555, 635, 645, 655, 665, 675,
     685, 755, 765, 775, 785, 795, 805, 875, 885, 895, 905, 915, 925, 935}

\* f"{x:.2f}" for x = k thousandths, 0 <= k <= 1000
Fmt2f(k) ==
    LET h == IF (k % 10) < 5 THEN k \div 10
             ELSE IF (k % 10) > 5 THEN (k \div 10) + 1
             ELSE IF k \in HalfUp2f THEN (k \div 10) + 1 ELSE k \div 10
    IN  <<Digits[(h \div 100) + 1], ".", Digits[((h \div 10) % 10) + 1], Digits[(h % 10) + 1]>>

---------------------------------------------------------------------------
(* The prompt submitted to the collaborator *)

\* threshold of classify_and_summarize for the enhanced prompt, in thousandths
PromptThreshold == 300

\* the keys of tool_examples in _build_enhanced_prompt
ToolExamples == {T_chef, T_puppet, T_terraform}

\* the context block of _build_enhanced_prompt: the tool in upper case, the confidence
\* printed with two decimals, the first three indicators and the tool's examples
prompt_context(pattern) ==
    LET indicators == pattern.strongest_indicators
    IN  [detected_tool |-> Upper(pattern.detected_tool),
         confidence |-> Fmt2f(pattern.confidence_score),
         indicators |-> SubSeq(indicators, 1, IF Len(indicators) < 3
                                              THEN Len(indicators) ELSE 3),
         examples |-> pattern.detected_tool]

\* _build_enhanced_prompt(code, pattern_analysis): the template, the context block that
\* precedes it (<<>> when context is the empty string) and the code it quotes
build_enhanced_prompt(text, pattern) ==
    [template |-> "enhanced",
     context |-> IF pattern.detected_tool \in ToolExamples
                 THEN <<prompt_context(pattern)>>
                 ELSE <<>>,
     code |-> text]

\* _build_standard_prompt(code)
build_standard_prompt(text) ==
    [template |-> "standard", context |-> <<>>, code |-> text]

\* Stage 2 of classify_and_summarize: the prompt the collaborator is asked with
submitted_prompt(text, pattern) ==
    IF pattern.confidence_score >= PromptThreshold
    THEN build_enhanced_prompt(text, pattern)
    ELSE build_standard_prompt(text)

---------------------------------------------------------------------------
(* ConvertibilityResolver: _make_intelligent_decision *)

\* thresholds of _make_intelligent_decision, in thousandths
OverrideThreshold == 700

ContextThreshold == 400

OverrideTools == {T_chef, T_puppet, T_terraform, T_ansible, T_cloudformation}

\* f"High-confidence {detected_tool} patterns detected (score: {confidence_score:.2f})"
override_reason_text(pattern) ==
    <<"H","i","g","h","-","c","o","n","f","i","d","e","n","c","e"," ">>
    \o pattern.detected_tool
    \o <<" ","p","a","t","t","e","r","n","s"," ","d","e","t","e","c","t","e","d"," ",
         "(","s","c","o","r","e",":"," ">>
    \o Fmt2f(pattern.confidence_score) \o <<")">>

\* f" [Override Applied: {override_reason}]"
override_note(reason) ==
    <<" ","[","O","v","e","r","r","i","d","e"," ","A","p","p","l","i","e","d",":"," ">>
    \o reason \o <<"]">>

\* a variant of the first branch's condition that forgets the whitelist of tools
override_condition_any_tool(pattern, ai_result) ==
    /\ pattern.confidence_score >= OverrideThreshold
    /\ pattern.likely_iac
    /\ ~ai_result.convertible

\* the condition of the first branch
override_condition(pattern, ai_result) ==
    /\ pattern.confidence_score >= OverrideThreshold
    /\ pattern.likely_iac
    /\ ~ai_result.convertible
    /\ pattern.detected_tool \in OverrideTools

\* a variant that flips the verdict without recording the original one
make_intelligent_decision_unrecorded(pattern, ai_result) ==
    LET decided ==
            IF override_condition(pattern, ai_result)
            THEN [ai_result EXCEPT
                    !.convertible = TRUE,
                    !.override_applied = TRUE,
                    !.override_reason = override_reason_text(pattern),
                    !.conversion_notes = @ \o override_note(override_reason_text(pattern)),
                    !.confidence_source = S_pattern_override]
            ELSE IF pattern.confidence_score >= ContextThreshold
            THEN [ai_result EXCEPT !.confidence_source = S_ai_with_pattern_context]
            ELSE [ai_result EXCEPT !.confidence_source = S_ai_only]
    IN  [decided EXCEPT !.pattern_analysis = pattern]

\* a variant that names the source by the confidence tier alone
make_intelligent_decision_by_tier(pattern, ai_result) ==
    LET decided ==
            IF override_condition(pattern, ai_result)
            THEN [ai_result EXCEPT
                    !.convertible = TRUE,
                    !.override_applied = TRUE,
                    !.override_reason = override_reason_text(pattern),
                    !.original_ai_decision = <<FALSE>>,
                    !.conversion_notes = @ \o override_note(override_reason_text(pattern)),
                    !.confidence_source = S_pattern_override]
            ELSE IF pattern.confidence_score >= OverrideThreshold
            THEN [ai_result EXCEPT !.confidence_source = S_pattern_override]
            ELSE IF pattern.confidence_score > ContextThreshold
            THEN [ai_result EXCEPT !.confidence_source = S_ai_with_pattern_context]
            ELSE [ai_result EXCEPT !.confidence_source = S_ai_only]
    IN  [decided EXCEPT !.pattern_analysis = pattern]

\* a variant whose context-assisted branch lets the patterns decide the verdict
make_intelligent_decision_context_decides(pattern, ai_result) ==
    LET decided ==
            IF override_condition(pattern, ai_result)
            THEN [ai_result EXCEPT
                    !.convertible = TRUE,
                    !.override_applied = TRUE,
                    !.override_reason = override_reason_text(pattern),
                    !.original_ai_decision = <<FALSE>>,
                    !.conversion_notes = @ \o override_note(override_reason_text(pattern)),
                    !.confidence_source = S_pattern_override]
            ELSE IF pattern.confidence_score >= ContextThreshold
            THEN [ai_result EXCEPT !.confidence_source = S_ai_with_pattern_context,
                                   !.convertible = pattern.likely_iac]
            ELSE [ai_result EXCEPT !.confidence_source = S_ai_only]
    IN  [decided EXCEPT !.pattern_analysis = pattern]

\* _make_intelligent_decision(pattern_analysis, ai_result)
make_intelligent_decision(pattern, ai_result) ==
    LET decided ==
            IF override_condition(pattern, ai_result)
            THEN [ai_result EXCEPT
                    !.convertible = TRUE,
                    !.override_applied = TRUE,
                    !.override_reason = override_reason_text(pattern),
                    !.original_ai_decision = <<FALSE>>,
                    !.conversion_notes = @ \o override_note(override_reason_text(pattern)),
                    !.confidence_source = S_pattern_override]
            ELSE IF pattern.confidence_score >= ContextThreshold
            THEN [ai_result EXCEPT !.confidence_source = S_ai_with_pattern_context]
            ELSE [ai_result EXCEPT !.confidence_source = S_ai_only]
    IN  [decided EXCEPT !.pattern_analysis = pattern]

---------------------------------------------------------------------------
(* _result_to_dict and MetricsCalculator *)

\* x or default, for a str or a list
OrDefault(x, default) == IF x # <<>> THEN x ELSE default

\* _result_to_dict(result)
result_to_dict(res) ==
    LET base_dict ==
            [classification |-> OrDefault(res.classification, S_unknown),
             summary |-> OrDefault(res.summary,
                 <<"A","n","a","l","y","s","i","s"," ","c","o","m","p","l","e","t","e","d">>),
             detailed_analysis |-> OrDefault(res.detailed_analysis,
                 <<"N","o"," ","d","e","t","a","i","l","e","d"," ","a","n","a","l","y","s","i","s",
                   " ","p","r","o","v","i","d","e","d">>),
             resources |-> OrDefault(res.resources, <<>>),
             key_operations |-> OrDefault(res.key_operations, <<>>),
             dependencies |-> OrDefault(res.dependencies,
                 <<"N","o","n","e"," ","s","p","e","c","i","f","i","e","d">>),
             configuration_details |-> OrDefault(res.configuration_details,
                 <<"S","t","a","n","d","a","r","d"," ","c","o","n","f","i","g","u","r","a","t",
                   "i","o","n">>),
             complexity_level |-> OrDefault(res.complexity_level, <<"M","e","d","i","u","m">>),
             convertible |-> res.convertible,
             conversion_notes |-> OrDefault(res.conversion_notes,
                 <<"S","t","a","n","d","a","r","d"," ","c","o","n","v","e","r","s","i","o","n",
                   " ","a","p","p","r","o","a","c","h"," ","a","p","p","l","i","c","a","b","l",
                   "e">>)]
        transparency_fields ==
            [confidence_source |-> res.confidence_source,
             override_applied |-> res.override_applied,
             pattern_analysis |->
                 [detected_tool |-> res.pattern_analysis.detected_tool,
                  confidence_score |-> res.pattern_analysis.confidence_score,
                  likely_iac |-> res.pattern_analysis.likely_iac,
                  strongest_indicators |-> res.pattern_analysis.strongest_indicators]]
        override_fields ==
            IF res.override_applied
            THEN [override_reason |-> res.override_reason,
                  original_ai_decision |-> res.original_ai_decision]
            ELSE <<>>
    IN  override_fields @@ transparency_fields @@ base_dict

MinuteMs == 60000

\* _MANUAL_ESTIMATES: <<classification, minutes>>; the last entry is "unknown"
ManualEstimates ==
    << <<T_terraform, 5>>, <<T_cloudformation, 5>>, <<T_chef, 7>>, <<T_puppet, 6>>,
       <<T_ansible, 4>>, <<T_bash, 3>>, <<T_powershell, 4>>, <<T_docker, 4>>,
       <<T_kubernetes, 6>>, <<<<"h","e","l","m">>, 5>>, <<<<"v","a","g","r","a","n","t">>, 4>>,
       <<<<"p","a","c","k","e","r">>, 5>>, <<S_unknown, 5>> >>

\* _MANUAL_ESTIMATES.get(classification, _MANUAL_ESTIMATES["unknown"]), in ms
manual_estimate(classification) ==
    LET hits == {k \in DOMAIN ManualEstimates : ManualEstimates[k][1] = classification}
    IN  IF hits = {} THEN ManualEstimates[Len(ManualEstimates)][2] * MinuteMs
        ELSE ManualEstimates[CHOOSE k \in hits : TRUE][2] * MinuteMs

\* a variant that looks the classification up as it is spelled
add_performance_metrics_case_sensitive(dict, duration_ms) ==
    LET manual_estimate_ms == manual_estimate(dict.classification)
    IN  [duration_ms |-> duration_ms,
         manual_estimate_ms |-> manual_estimate_ms,
         speedup |-> IF duration_ms > 0
                     THEN <<RoundDiv(manual_estimate_ms * 100, duration_ms)>>
                     ELSE <<>>]

\* _add_performance_metrics(result, duration_ms) for a duration of whole milliseconds;
\* speedup is None (<<>>) or <<the speedup in hundredths>>
add_performance_metrics(dict, duration_ms) ==
    LET manual_estimate_ms == manual_estimate(Lower(dict.classification))
    IN  [duration_ms |-> duration_ms,
         manual_estimate_ms |-> manual_estimate_ms,
         speedup |-> IF duration_ms > 0
                     THEN <<RoundDiv(manual_estimate_ms * 100, duration_ms)>>
                     ELSE <<>>]

---------------------------------------------------------------------------
(* Exceptions and the envelopes of get_json_result *)

\* a variant that accepts five characters
is_valid_input_from_five(text) ==
    /\ text # NoneStr
    /\ text # <<>>
    /\ Strip(text) # <<>>
    /\ Len(Strip(text)) >= 5

\* _is_valid_input(code)
is_valid_input(text) ==
    /\ text # NoneStr
    /\ text # <<>>
    /\ Strip(text) # <<>>
    /\ Len(Strip(text)) > 5

\* ClassificationError(message), raised from cause (<<>>: no cause)
ClassificationError(message, cause) ==
    [type |-> "ClassificationError", message |-> message, cause |-> cause]

\* raise ClassificationError("Invalid or empty code snippet provided")
InvalidInputError ==
    ClassificationError(<<"Invalid or empty code snippet provided">>, <<>>)

\* the except clauses of classify_and_summarize, for an exception e raised inside the try
WrapError(e) ==
    IF e.type = "HTTPError"
    THEN ClassificationError(<<"Network error during classification: ">> \o e.message, <<e>>)
    ELSE ClassificationError(<<"Classification failed: ">> \o e.message, <<e>>)

Version == "4.0-config-enhanced"

\* the reading of time.time(), which the model does not follow
Timestamp == "time.time()"

\* get_json_result: the dict returned when classify_and_summarize returns
SuccessEnvelope(data) ==
    [success |-> TRUE, data |-> <<data>>, error |-> <<>>,
     timestamp |-> Timestamp, version |-> Version]

\* get_json_result: the dict returned when classify_and_summarize raises e
FailureEnvelope(e) ==
    IF e.type = "ClassificationError"
    THEN [success |-> FALSE, data |-> <<>>, error |-> <<e.message>>,
          error_type |-> "ClassificationError",
          timestamp |-> Timestamp, version |-> Version]
    ELSE [success |-> FALSE, data |-> <<>>,
          error |-> << <<"Unexpected classification failure">> >>,
          error_type |-> "UnexpectedError",
          timestamp |-> Timestamp, version |-> Version]

---------------------------------------------------------------------------
(* Inputs: snippets, collaborator replies, clock readings *)

\* no pattern and no keyword of the rule table matches
NoMatches ==
    [t \in DOMAIN iac_patterns |->
        [patterns |-> [k \in 1..iac_patterns[t].patterns |-> 0],
         keywords |-> [k \in 1..iac_patterns[t].keywords |-> 0]]]

\* a snippet: its characters, and what the rule table's expressions find in it
Snippet(text, found) == [text |-> text, found |-> found]

\* 4 pattern hits and 2 keyword hits for puppet (tool 3), nothing else: confidence 1.0
PuppetFound ==
    [NoMatches EXCEPT ![3].patterns[1] = 2, ![3].patterns[6] = 2,
                      ![3].keywords[1] = 1, ![3].keywords[3] = 1]

\* 3 hits for chef (tool 2) and 2 for bash (tool 8): confidence 0.36
ChefBashFound ==
    [NoMatches EXCEPT ![2].patterns[3] = 2, ![2].keywords[1] = 1,
                      ![8].patterns[4] = 1, ![8].keywords[4] = 1]

Snippets ==
    { Snippet(<<>>, NoMatches),
      Snippet(<<"e","c","h","o"," ","h","i">>, NoMatches),
      Snippet(<<"c","l","a","s","s"," ","x"," ","{","}">>, PuppetFound),
      Snippet(<<"p","a","c","k","a","g","e"," ","'","x","'"," ","d","o">>, ChefBashFound) }

\* the labels of the output contract, as the prompts spell them
L_Tool == <<"T","o","o","l","/","L","a","n","g","u","a","g","e",":">>

L_Summary == <<"S","u","m","m","a","r","y",":">>

L_Detailed == <<"D","e","t","a","i","l","e","d"," ","A","n","a","l","y","s","i","s",":">>

L_Resources == <<"R","e","s","o","u","r","c","e","s","/","C","o","m","p","o","n","e","n","t","s",":">>

L_KeyOps == <<"K","e","y"," ","O","p","e","r","a","t","i","o","n","s",":">>

L_Dependencies == <<"D","e","p","e","n","d","e","n","c","i","e","s",":">>

L_Configuration == <<"C","o","n","f","i","g","u","r","a","t","i","o","n"," ",
                     "D","e","t","a","i","l","s",":">>

L_Complexity == <<"C","o","m","p","l","e","x","i","t","y"," ","L","e","v","e","l",":">>

L_Convertible == <<"C","o","n","v","e","r","t","i","b","l","e",":">>

L_Notes == <<"C","o","n","v","e","r","s","i","o","n"," ","N","o","t","e","s",":">>

\* "<label> <value>"
Labelled(label, value) == label \o <<" ">> \o value

\* the lines of a reply, joined by newlines
Text(lines) == Join(lines, <<"\n">>)

V_YES == <<"Y","E","S">>

V_NO == <<"N","O">>

V_manual == <<"m","a","n","u","a","l"," ","w","o","r","k">>

\* replies of the collaborator in the runs of the whole pipeline
Replies ==
    { Text(<<Labelled(L_Tool, T_puppet), Labelled(L_Convertible, V_NO)>>),
      Text(<<Labelled(L_Tool, T_chef), Labelled(L_Convertible, V_YES),
             Labelled(L_Notes, V_manual)>>),
      Text(<< <<"I"," ","c","a","n","n","o","t"," ","s","a","y",".">> >>) }

\* exceptions raised by the collaborator's call: a transport error and any other one
QueryErrors ==
    { [type |-> "HTTPError", message |-> <<"connection refused">>],
      [type |-> "RuntimeError", message |-> <<"session expired">>] }

\* time.perf_counter() - start_time, in whole milliseconds
Durations == {0, 1500, 7000}

MaxBatch == 2

\* the sequences over S of length at most n
SeqsUpTo(S, n) == UNION {[1..k -> S] : k \in 0..n}

---------------------------------------------------------------------------
(* The instruction store, the agent and the cached marker *)

\* the text _get_fallback_instructions returns (abridged)
FallbackInstructions == <<"f","a","l","l","b","a","c","k">>

\* the instructions the configuration holds for the classifier
ConfiguredInstructions == <<"v","1">>

\* hash(text): the model keeps the text the hash was taken of, so that two texts have
\* the same hash only if they are the same text
Hash(text) == <<"hash", text>>

\* _get_current_instructions(): the store's text, or the fallback if it is empty
current_instructions(store) == IF store = <<>> THEN FallbackInstructions ELSE store

\* Agent(client=..., model=..., instructions=text): the n-th agent of this object
Agent(text, n) == [instructions |-> text, built |-> n]

---------------------------------------------------------------------------
(* classify_and_summarize, get_json_result and batch_classify, step by step *)

\* a variant of the loop that takes the snippets from the last to the first
BatchNext_from_end ==
    /\ pc = "batch_loop"
    /\ IF i < Len(code_snippets)
       THEN /\ code' = code_snippets[Len(code_snippets) - i]
            /\ pc' = "validate"
       ELSE /\ pc' = "batch_done"
            /\ UNCHANGED code
    /\ UNCHANGED <<pattern_analysis, raw_result, result, result_dict, raised, envelope,
                   code_snippets, i, results,
                   prompt, route_vars,
                   config_vars, requests, writer_vars>>

\* for i, code in enumerate(code_snippets): the next item enters get_json_result,
\* or the loop ends
BatchNext ==
    /\ pc = "batch_loop"
    /\ IF i < Len(code_snippets)
       THEN /\ code' = code_snippets[i + 1]
            /\ pc' = "validate"
       ELSE /\ pc' = "batch_done"
            /\ UNCHANGED code
    /\ UNCHANGED <<pattern_analysis, raw_result, result, result_dict, raised, envelope,
                   code_snippets, i, results,
                   prompt, route_vars,
                   config_vars, requests, writer_vars>>

\* a variant that brings the agent up to date before it looks at the input
Validate_after_config ==
    /\ pc = "validate"
    /\ LET hashed == Hash(current_instructions(instructions))
       IN  IF hashed # last_instructions_hash
           THEN /\ agent' = Agent(current_instructions(instructions), agent.built + 1)
                /\ last_instructions_hash' = hashed
           ELSE UNCHANGED <<agent, last_instructions_hash>>
    /\ IF is_valid_input(code.text)
       THEN /\ pc' = "config"
            /\ UNCHANGED raised
       ELSE /\ raised' = <<InvalidInputError>>
            /\ pc' = "except"
    /\ prompt' = <<>>
    /\ UNCHANGED <<code, pattern_analysis, raw_result, result, result_dict, envelope,
                   code_snippets, i, results, route_vars,
                   instructions, current_hash, requests, writer_vars>>

\* classify_and_summarize: if not self._is_valid_input(code): raise ClassificationError;
\* the call's locals are fresh, so no prompt has been built yet
Validate ==
    /\ pc = "validate"
    /\ IF is_valid_input(code.text)
       THEN /\ pc' = "config"
            /\ UNCHANGED raised
       ELSE /\ raised' = <<InvalidInputError>>
            /\ pc' = "except"
    /\ prompt' = <<>>
    /\ UNCHANGED <<code, pattern_analysis, raw_result, result, result_dict, envelope,
                   code_snippets, i, results, route_vars,
                   config_vars, requests, writer_vars>>

\* _check_and_reload_config up to the comparison: the current instructions are read
\* and their hash is compared with the cached marker
CheckConfig ==
    /\ pc = "config"
    /\ LET hashed == Hash(current_instructions(instructions))
       IN  IF hashed # last_instructions_hash
           THEN /\ current_hash' = <<hashed>>
                /\ pc' = "reload"
           ELSE /\ current_hash' = <<>>
                /\ pc' = "screen"
    /\ UNCHANGED <<code, pattern_analysis, raw_result, result, result_dict, raised, envelope,
                   code_snippets, i, results, prompt, route_vars,
                   instructions, agent, last_instructions_hash, requests, writer_vars>>

\* _check_and_reload_config after a change was seen: _initialize_agent reads the
\* instructions again and builds the agent with them; if that raises it builds the
\* agent with the fallback instructions; the marker becomes the hash taken before.
\* If the second build raises too, the exception is logged and nothing is assigned.
ReloadAgent ==
    /\ pc = "reload"
    /\ \E outcome \in {"built", "fallback", "failed"} :
          IF outcome = "failed"
          THEN UNCHANGED <<agent, last_instructions_hash>>
          ELSE /\ agent' = Agent(IF outcome = "built"
                                 THEN current_instructions(instructions)
                                 ELSE FallbackInstructions,
                                 agent.built + 1)
               /\ last_instructions_hash' = current_hash[1]
    /\ current_hash' = <<>>
    /\ pc' = "screen"
    /\ UNCHANGED <<code, pattern_analysis, raw_result, result, result_dict, raised, envelope,
                   code_snippets, i, results, prompt, route_vars,
                   instructions, requests, writer_vars>>

\* Stage 1: pattern_analysis = self._pattern_based_screening(code)
Screen ==
    /\ pc = "screen"
    /\ pattern_analysis' = pattern_based_screening(code.found)
    /\ pc' = "query"
    /\ UNCHANGED <<code, raw_result, result, result_dict, raised, envelope,
                   code_snippets, i, results,
                   prompt, route_vars,
                   config_vars, requests, writer_vars>>

\* Stage 2: the prompt is built and create_turn sends it to the collaborator, which
\* is served by the agent as it is now
Ask ==
    /\ pc = "query"
    /\ LET asked == submitted_prompt(code.text, pattern_analysis)
       IN  /\ prompt' = <<asked>>
           /\ requests' = Append(requests, [item |-> i, prompt |-> asked,
                                            instructions |-> agent.instructions])
    /\ pc' = "await"
    /\ UNCHANGED <<code, pattern_analysis, raw_result, result, result_dict, raised, envelope,
                   code_snippets, i, results, route_vars, config_vars, writer_vars>>

\* Stage 2: the collaborator answers with a text
QueryReturns ==
    /\ pc = "await"
    /\ \E reply \in Replies : raw_result' = reply
    /\ pc' = "parse"
    /\ UNCHANGED <<code, pattern_analysis, result, result_dict, raised, envelope,
                   code_snippets, i, results, prompt, route_vars,
                   config_vars, requests, writer_vars>>

\* a variant in which a failed request is sent once more
QueryRaises_retries ==
    /\ pc = "await"
    /\ pc' = "query"
    /\ UNCHANGED <<code, pattern_analysis, raw_result, result, result_dict, raised, envelope,
                   code_snippets, i, results, prompt, route_vars,
                   config_vars, requests, writer_vars>>

\* Stage 2: the collaborator's call raises, and an except clause wraps the exception
QueryRaises ==
    /\ pc = "await"
    /\ \E e \in QueryErrors : raised' = <<WrapError(e)>>
    /\ pc' = "except"
    /\ UNCHANGED <<code, pattern_analysis, raw_result, result, result_dict, envelope,
                   code_snippets, i, results, prompt, route_vars,
                   config_vars, requests, writer_vars>>

\* structured_result = self._format_agent_response(raw_result)
Parse ==
    /\ pc = "parse"
    /\ LET parsed == format_agent_response(raw_result)
       IN  IF parsed.raised = <<>>
           THEN /\ result' = parsed.value
                /\ pc' = "resolve"
                /\ UNCHANGED raised
           ELSE /\ raised' = <<WrapError([type |-> parsed.raised[1],
                                          message |-> <<parsed.raised[1]>>])>>
                /\ pc' = "except"
                /\ UNCHANGED result
    /\ UNCHANGED <<code, pattern_analysis, raw_result, result_dict, envelope,
                   code_snippets, i, results,
                   prompt, route_vars,
                   config_vars, requests, writer_vars>>

\* Stage 3: final_result = self._make_intelligent_decision(pattern_analysis, structured_result)
Resolve ==
    /\ pc = "resolve"
    /\ result' = make_intelligent_decision(pattern_analysis, result)
    /\ pc' = "metrics"
    /\ UNCHANGED <<code, pattern_analysis, raw_result, result_dict, raised, envelope,
                   code_snippets, i, results,
                   prompt, route_vars,
                   config_vars, requests, writer_vars>>

\* result_dict = self._result_to_dict(final_result), the metrics, the config source
\* and the cached marker as instructions_hash
Finish ==
    /\ pc = "metrics"
    /\ \E duration_ms \in Durations :
          LET dict == result_to_dict(result)
          IN  result_dict' = [config_source |-> "dynamic_config",
                              instructions_hash |-> last_instructions_hash]
                             @@ add_performance_metrics(dict, duration_ms) @@ dict
    /\ pc' = "return"
    /\ UNCHANGED <<code, pattern_analysis, raw_result, result, raised, envelope,
                   code_snippets, i, results,
                   prompt, route_vars,
                   config_vars, requests, writer_vars>>

\* get_json_result: classify_and_summarize returned
ReturnEnvelope ==
    /\ pc = "return"
    /\ envelope' = SuccessEnvelope(result_dict)
    /\ pc' = "store"
    /\ UNCHANGED <<code, pattern_analysis, raw_result, result, result_dict, raised,
                   code_snippets, i, results,
                   prompt, route_vars,
                   config_vars, requests, writer_vars>>

\* get_json_result: classify_and_summarize raised
ExceptEnvelope ==
    /\ pc = "except"
    /\ envelope' = FailureEnvelope(raised[1])
    /\ raised' = <<>>
    /\ pc' = "store"
    /\ UNCHANGED <<code, pattern_analysis, raw_result, result, result_dict,
                   code_snippets, i, results,
                   prompt, route_vars,
                   config_vars, requests, writer_vars>>

\* a variant of the loop body that keeps only the entries of snippets that succeeded
BatchStore_successes_only ==
    /\ pc = "store"
    /\ results' = IF envelope.success
                  THEN Append(results, [batch_index |-> i] @@ envelope)
                  ELSE results
    /\ i' = i + 1
    /\ pc' = "batch_loop"
    /\ UNCHANGED <<code, pattern_analysis, raw_result, result, result_dict, raised,
                   envelope, code_snippets,
                   prompt, route_vars,
                   config_vars, requests, writer_vars>>

\* batch_classify: result["batch_index"] = i; results.append(result)
BatchStore ==
    /\ pc = "store"
    /\ results' = Append(results, [batch_index |-> i] @@ envelope)
    /\ i' = i + 1
    /\ pc' = "batch_loop"
    /\ UNCHANGED <<code, pattern_analysis, raw_result, result, result_dict, raised,
                   envelope, code_snippets,
                   prompt, route_vars,
                   config_vars, requests, writer_vars>>

\* the texts a caller passes to update_agent_instructions: a new text, the stored text
\* in spaces, the empty text and a blank one
WriterTexts ==
    { <<"v","2">>, <<" ">> \o ConfiguredInstructions \o <<" ">>, <<>>, <<" ">> }

MaxWrites == 1

\* where a write to the store can make a difference to a call: the object reads the store
\* in _check_and_reload_config and again in _initialize_agent and nowhere else, so a
\* write lands between two calls, before the first read or between the two reads
WritePoints == {"batch_loop", "config", "reload"}

\* AgentConfigManager.update_agent_instructions('classifier', text), called by another
\* thread: an empty or blank text raises ValueError, which is caught, and the call
\* returns False; otherwise the stripped text is put in config_data and the call
\* returns what _save_config returns, True or, if writing the file fails, False
update_agent_instructions ==
    /\ writes < MaxWrites
    /\ pc \in WritePoints
    /\ \E text \in WriterTexts, saved \in BOOLEAN :
          IF Strip(text) = <<>>
          THEN /\ UNCHANGED instructions
               /\ update' = <<[returned |-> FALSE, before |-> instructions,
                               item |-> i, during |-> pc]>>
          ELSE /\ instructions' = Strip(text)
               /\ update' = <<[returned |-> saved, before |-> instructions,
                               item |-> i, during |-> pc]>>
    /\ writes' = writes + 1
    /\ UNCHANGED <<pc, code, pattern_analysis, raw_result, result, result_dict, raised,
                   envelope, code_snippets, i, results, prompt, route_vars,
                   agent, last_instructions_hash, current_hash, requests>>

\* the object as its constructor leaves it with a store that holds the configured
\* instructions; nobody has written to the store
Configured ==
    /\ instructions = ConfiguredInstructions
    /\ agent = Agent(ConfiguredInstructions, 0)
    /\ last_instructions_hash = Hash(ConfiguredInstructions)
    /\ current_hash = <<>>
    /\ writes = 0
    /\ update = <<>>

\* before any call: nothing computed yet
Blank ==
    /\ pattern_analysis = DefaultPatternAnalysis
    /\ raw_result = <<>>
    /\ result = DefaultClassificationResult
    /\ result_dict = <<>>
    /\ raised = <<>>
    /\ envelope = <<>>
    /\ i = 0
    /\ results = <<>>
    /\ prompt = <<>>
    /\ classifier = TRUE
    /\ response = <<>>
    /\ requests = <<>>
    /\ Configured

Init ==
    /\ pc = "batch_loop"
    /\ code_snippets \in SeqsUpTo(Snippets, MaxBatch)
    /\ code = Snippet(<<>>, NoMatches)
    /\ Blank

Next ==
    \/ BatchNext
    \/ Validate
    \/ CheckConfig
    \/ Screen
    \/ Ask
    \/ QueryReturns
    \/ QueryRaises
    \/ Parse
    \/ Resolve
    \/ Finish
    \/ ReturnEnvelope
    \/ ExceptEnvelope
    \/ BatchStore

Spec == Init /\ [][Next]_vars

---------------------------------------------------------------------------
(* The stages after the collaborator's answer, over many replies: SpecParser *)

V_installs_nginx == <<"i","n","s","t","a","l","l","s"," ","n","g","i","n","x">>

V_uses_aws_instance == <<"u","s","e","s"," ","a","w","s","_","i","n","s","t","a","n","c","e">>

V_nginx == <<"n","g","i","n","x">>

V_web_server == <<"w","e","b","_","s","e","r","v","e","r">>

V_start_service == <<"s","t","a","r","t"," ","s","e","r","v","i","c","e">>

V_ruby == <<"r","u","b","y">>

V_port_80 == <<"p","o","r","t"," ","8","0">>

V_High == <<"H","i","g","h">>

V_two_resources == <<"t","w","o"," ","r","e","s","o","u","r","c","e","s">>

V_plain_text == <<"p","l","a","i","n"," ","t","e","x","t">>

\* texts a reply may carry after "Convertible:"
ConvertibleTexts ==
    { V_YES, V_NO, <<>>,
      <<"t","r","u","e">>,
      <<"n","o"," ","-"," ","y","e","s"," ","i","n"," ","t","h","e","o","r","y">>,
      <<"[","Y","E","S","/","N","O","]">> }

\* lines a reply is made of: labelled, emphasised, bulleted, bracketed, free, blank
ParserLines ==
    { Labelled(L_Tool, T_chef),
      <<"*","*","S","u","m","m","a","r","y",":","*","*"," ","s","e","t","s"," ","*","x","*">>,
      L_Resources,
      <<"-"," ">> \o V_web_server,
      <<"[","R","e","s","o","u","r","c","e"," ","1","]">>,
      V_plain_text,
      <<" "," ">> }
    \cup {Labelled(L_Convertible, t) : t \in ConvertibleTexts}

MaxLines == 3

\* "- item" for each item
RECURSIVE Bullets(_)
Bullets(items) ==
    IF items = <<>> THEN <<>> ELSE << <<"-"," ">> \o Head(items) >> \o Bullets(Tail(items))

\* literal values for the ten sections of the output contract
ContractValues ==
    [classification : {T_chef},
     summary : {V_installs_nginx, V_uses_aws_instance},
     detailed_analysis : {V_two_resources},
     resources : {<<V_nginx>>, <<V_nginx, V_web_server>>},
     key_operations : {<<V_start_service>>},
     dependencies : {V_ruby},
     configuration_details : {V_port_80},
     complexity_level : {V_High},
     convertible : {V_YES, V_NO},
     conversion_notes : {V_manual}]

\* the reply that carries the values v in the format both prompts ask for
ContractReply(v) ==
    Text(<<Labelled(L_Tool, v.classification),
           Labelled(L_Summary, v.summary),
           Labelled(L_Detailed, v.detailed_analysis),
           L_Resources>>
         \o Bullets(v.resources)
         \o <<L_KeyOps>>
         \o Bullets(v.key_operations)
         \o <<Labelled(L_Dependencies, v.dependencies),
              Labelled(L_Configuration, v.configuration_details),
              Labelled(L_Complexity, v.complexity_level),
              Labelled(L_Convertible, v.convertible),
              Labelled(L_Notes, v.conversion_notes)>>)

ParserReplies ==
    {Text(lines) : lines \in SeqsUpTo(ParserLines, MaxLines)}
    \cup {ContractReply(v) : v \in ContractValues}

\* a call that has its collaborator's answer: raw_result is about to be parsed
AtParse(snippets, analyses, texts) ==
    /\ pc = "parse"
    /\ code \in snippets
    /\ pattern_analysis \in analyses
    /\ raw_result \in texts
    /\ result = DefaultClassificationResult
    /\ result_dict = <<>>
    /\ raised = <<>>
    /\ envelope = <<>>
    /\ code_snippets = <<>>
    /\ i = 0
    /\ results = <<>>
    /\ prompt = <<submitted_prompt(code.text, pattern_analysis)>>
    /\ classifier = TRUE
    /\ response = <<>>
    /\ requests = <<[item |-> 0, prompt |-> prompt[1],
                     instructions |-> ConfiguredInstructions]>>
    /\ Configured

PuppetSnippet == Snippet(<<"c","l","a","s","s"," ","x"," ","{","}">>, PuppetFound)

InitParser ==
    AtParse({PuppetSnippet}, {pattern_based_screening(PuppetFound)}, ParserReplies)

NextStages ==
    \/ Parse
    \/ Resolve
    \/ Finish
    \/ ReturnEnvelope

SpecParser == InitParser /\ [][NextStages]_vars

---------------------------------------------------------------------------
(* The resolver over many PatternAnalysis values: SpecResolver *)

AllTools == {iac_patterns[t].tool : t \in DOMAIN iac_patterns}

\* confidence scores in thousandths, on both sides of 0.4 and of 0.7
ConfidenceScores == {0, 250, 399, 400, 401, 690, 699, 700, 701, 745, 755, 1000}

PatternAnalyses ==
    [likely_iac : BOOLEAN,
     detected_tool : AllTools \cup {S_unknown},
     confidence_score : ConfidenceScores,
     pattern_matches : {tool_scores(NoMatches)},
     strongest_indicators : {<<>>}]

\* replies with the verdict NO, YES and none, with and without conversion notes
ResolverReplies ==
    Replies \cup
    { Text(<<Labelled(L_Convertible, V_NO), Labelled(L_Notes, V_manual)>>),
      Text(<<Labelled(L_Tool, T_docker), Labelled(L_Convertible, <<>>)>>) }

InitResolver == AtParse({PuppetSnippet}, PatternAnalyses, ResolverReplies)

SpecResolver == InitResolver /\ [][NextStages]_vars

---------------------------------------------------------------------------
(* Validation over many inputs: SpecInput *)

MaxCodeLen == 7

CodeChars == {" ", "\n", "x"}

\* None, and every text of at most MaxCodeLen characters
CodeTexts == {NoneStr} \cup SeqsUpTo(CodeChars, MaxCodeLen)

InitInput ==
    /\ pc = "validate"
    /\ code \in {Snippet(t, NoMatches) : t \in CodeTexts}
    /\ code_snippets = <<>>
    /\ Blank

NextInput ==
    \/ Validate
    \/ ExceptEnvelope

SpecInput == InitInput /\ [][NextInput]_vars

---------------------------------------------------------------------------
(* Calls on one object while the instruction store is written: SpecConfig *)

\* what the store holds for the classifier when the object is constructed: the
\* configured text, or nothing
StoredTexts == {ConfiguredInstructions, <<>>}

\* an invalid snippet and a valid one
ConfigSnippets == {s \in Snippets : s.found = NoMatches}

\* how many calls follow the construction of the object
MaxCalls == 1

\* __init__: _initialize_agent builds the agent with the current instructions or, if
\* that raises, with the fallback instructions; then the marker is set to the hash of
\* the current instructions
InitConfig ==
    /\ pc = "batch_loop"
    /\ code_snippets \in SeqsUpTo(ConfigSnippets, MaxCalls)
    /\ code = Snippet(<<>>, NoMatches)
    /\ pattern_analysis = DefaultPatternAnalysis
    /\ raw_result = <<>>
    /\ result = DefaultClassificationResult
    /\ result_dict = <<>>
    /\ raised = <<>>
    /\ envelope = <<>>
    /\ i = 0
    /\ results = <<>>
    /\ prompt = <<>>
    /\ classifier = TRUE
    /\ response = <<>>
    /\ requests = <<>>
    /\ instructions \in StoredTexts
    /\ agent \in {Agent(current_instructions(instructions), 0),
                  Agent(FallbackInstructions, 0)}
    /\ last_instructions_hash = Hash(current_instructions(instructions))
    /\ current_hash = <<>>
    /\ writes = 0
    /\ update = <<>>

NextConfig ==
    \/ BatchNext
    \/ Validate
    \/ CheckConfig
    \/ ReloadAgent
    \/ Screen
    \/ Ask
    \/ QueryReturns
    \/ QueryRaises
    \/ Parse
    \/ Resolve
    \/ Finish
    \/ ReturnEnvelope
    \/ ExceptEnvelope
    \/ BatchStore
    \/ update_agent_instructions

SpecConfig == InitConfig /\ [][NextConfig]_vars

---------------------------------------------------------------------------
(* classify_code of routes/classify.py around get_json_result: SpecRoute *)

\* HTTPException(status_code=..., detail=...)
HTTPException(status_code, detail) == [status_code |-> status_code, detail |-> detail]

\* return result["data"]: the framework answers 200 with the data as the body
HTTPOk(data) == [status_code |-> 200, body |-> data]

\* classify_code up to the call of classifier.get_json_result(req.code)
RouteEnter ==
    /\ pc = "route"
    /\ IF ~classifier
       THEN /\ response' = <<HTTPException(500,
                   <<"ClassifierAgent not available - server initialization failed">>)>>
            /\ pc' = "route_done"
       ELSE IF code.text = <<>> \/ Strip(code.text) = <<>>
       THEN /\ response' = <<HTTPException(400, <<"Code snippet cannot be empty">>)>>
            /\ pc' = "route_done"
       ELSE /\ pc' = "validate"
            /\ UNCHANGED response
    /\ UNCHANGED <<code, pattern_analysis, raw_result, result, result_dict, raised, envelope,
                   code_snippets, i, results, prompt, classifier,
                   config_vars, requests, writer_vars>>

\* classify_code after get_json_result returned (pc = "store": the envelope is with the
\* caller).  The envelope is always a dict, so the checks for None and for another type
\* pass, and get_json_result raises nothing for the except clauses to catch.
RouteRespond ==
    /\ pc = "store"
    /\ LET error_msg == envelope.error[1]
           error_type == IF "error_type" \in DOMAIN envelope
                         THEN envelope.error_type ELSE "UnknownError"
       IN  response' =
               IF envelope.success /\ envelope.data # <<>>
               THEN <<HTTPOk(envelope.data[1])>>
               ELSE IF error_type = "ClassificationError"
               THEN <<HTTPException(400, error_msg)>>
               ELSE <<HTTPException(500, <<"Internal classification error: ">> \o error_msg)>>
    /\ pc' = "route_done"
    /\ UNCHANGED <<code, pattern_analysis, raw_result, result, result_dict, raised, envelope,
                   code_snippets, i, results, prompt, classifier,
                   config_vars, requests, writer_vars>>

\* bodies of a request: the snippets, a blank one and one that is too short
RouteCodes ==
    Snippets \cup { Snippet(<<" ","\n"," ">>, NoMatches),
                    Snippet(<<" ","e","c","h","o"," ">>, NoMatches) }

\* a request arrives; the global classifier is set or was never set
InitRoute ==
    /\ pc = "route"
    /\ code \in RouteCodes
    /\ classifier \in BOOLEAN
    /\ response = <<>>
    /\ pattern_analysis = DefaultPatternAnalysis
    /\ raw_result = <<>>
    /\ result = DefaultClassificationResult
    /\ result_dict = <<>>
    /\ raised = <<>>
    /\ envelope = <<>>
    /\ code_snippets = <<>>
    /\ i = 0
    /\ results = <<>>
    /\ prompt = <<>>
    /\ requests = <<>>
    /\ Configured

NextRoute ==
    \/ RouteEnter
    \/ Validate
    \/ CheckConfig
    \/ Screen
    \/ Ask
    \/ QueryReturns
    \/ QueryRaises
    \/ Parse
    \/ Resolve
    \/ Finish
    \/ ReturnEnvelope
    \/ ExceptEnvelope
    \/ RouteRespond

SpecRoute == InitRoute /\ [][NextRoute]_vars

---------------------------------------------------------------------------
(* The parser over lines that may start a section: SpecSections *)

\* the template's own placeholder for a list item
V_placeholder == <<"[","R","e","s","o","u","r","c","e"," ","1","]">>

\* a label as is, behind a bullet, behind emphasis, in upper case; and lines with no label
SectionLines ==
    { Labelled(L_Summary, V_installs_nginx),
      <<"-"," ">> \o Labelled(L_Summary, V_two_resources),
      <<"*"," ">> \o Labelled(L_Tool, T_chef),
      <<"*","*","S","u","m","m","a","r","y",":","*","*"," ","s","e","t","s"," ","*","x","*">>,
      <<"_">> \o Labelled(L_Notes, V_manual),
      <<Bullet, " ">> \o Labelled(L_Convertible, V_YES),
      Upper(L_KeyOps),
      Labelled(L_Complexity, V_High),
      <<"-"," ">> \o V_web_server,
      <<"-"," ">> \o V_placeholder,
      V_placeholder,
      V_plain_text,
      <<"S","u","m","m","a","r","y"," ","o","f"," ","i","t">> }

MaxSectionLines == 2

SectionReplies == {Text(lines) : lines \in SeqsUpTo(SectionLines, MaxSectionLines)}

InitSections ==
    AtParse({PuppetSnippet}, {pattern_based_screening(PuppetFound)}, SectionReplies)

SpecSections == InitSections /\ [][NextStages]_vars

---------------------------------------------------------------------------
(* The metrics over many classifications: SpecMetrics *)

\* what a reply may name after "Tool/Language:": the keys of _MANUAL_ESTIMATES, other
\* spellings of a key, and names the table does not have
MetricClassifications ==
    {ManualEstimates[k][1] : k \in DOMAIN ManualEstimates}
    \cup { <<"C","h","e","f">>, <<"P","U","P","P","E","T">>, <<"s","a","l","t">>,
           <<"c","h","e","f"," ","c","o","o","k","b","o","o","k">> }

\* replies that name a classification, and one that names none
MetricsReplies ==
    {Text(<<Labelled(L_Tool, c), Labelled(L_Convertible, V_YES)>>) : c \in MetricClassifications}
    \cup {Text(<<Labelled(L_Convertible, V_YES)>>)}

InitMetrics ==
    AtParse({PuppetSnippet}, {pattern_based_screening(PuppetFound)}, MetricsReplies)

SpecMetrics == InitMetrics /\ [][NextStages]_vars

---------------------------------------------------------------------------
(* The screener and the prompt over many score vectors: SpecScreener *)

MaxScore == 6

NoScores == [t \in DOMAIN iac_patterns |-> 0]

\* tool scores: every vector of zeros and ones, every vector with at most two tools
\* scoring up to MaxScore, and two vectors whose confidence is a half thousandth
ScoreVectors ==
    [DOMAIN iac_patterns -> {0, 1}]
    \cup {[NoScores EXCEPT ![t1] = s1, ![t2] = s2] :
              t1 \in DOMAIN iac_patterns, t2 \in DOMAIN iac_patterns,
              s1 \in 0..MaxScore, s2 \in 0..MaxScore}
    \cup {<<3, 3, 3, 3, 3, 1, 0, 0, 0>>, <<9, 9, 9, 9, 9, 9, 9, 9, 8>>}

\* matches that give the tools the scores v: a score of two or more is one keyword
\* and the other hits as occurrences of the tool's first pattern
FoundOf(v) ==
    [t \in DOMAIN iac_patterns |->
        [patterns |-> [k \in 1..iac_patterns[t].patterns |->
                          IF k # 1 THEN 0 ELSE IF v[t] >= 2 THEN v[t] - 1 ELSE v[t]],
         keywords |-> [k \in 1..iac_patterns[t].keywords |->
                          IF k = 1 /\ v[t] >= 2 THEN 1 ELSE 0]]]

ScreenerSnippets ==
    {Snippet(<<"s","o","m","e"," ","c","o","d","e">>, FoundOf(v)) : v \in ScoreVectors}
    \cup {s \in Snippets : is_valid_input(s.text)}

\* a call that has passed validation: the snippet is about to be screened
InitScreener ==
    /\ pc = "screen"
    /\ code \in ScreenerSnippets
    /\ code_snippets = <<>>
    /\ Blank

NextScreener ==
    \/ Screen
    \/ Ask
    \/ QueryReturns
    \/ QueryRaises
    \/ Parse
    \/ Resolve

SpecScreener == InitScreener /\ [][NextScreener]_vars

---------------------------------------------------------------------------
(* Properties of the resolver, checked under SpecResolver *)

\* the verdict the parser reads from the collaborator's answer
AIVerdict == format_agent_response(raw_result).value.convertible

\* the result has left _make_intelligent_decision
Resolved == pc \in {"metrics", "return", "store"}

\* sub occurs in s
Contains(s, sub) ==
    \E p \in 1..(Len(s) - Len(sub) + 1) : SubSeq(s, p, p + Len(sub) - 1) = sub

\* the reply says "Convertible: YES"
HasConvertibleYes ==
    /\ Contains(raw_result, Labelled(L_Convertible, V_YES))
    /\ AIVerdict = TRUE

\* C1: the resolver flips the verdict to convertible and sets override_applied iff
\* the pattern confidence is at least 0.7, likely_iac holds, the parsed AI verdict is
\* not convertible and the detected tool is chef, puppet, terraform, ansible or
\* cloudformation; otherwise override_applied is false and convertible is the AI verdict.
C1_OverrideIffAllFour ==
    Resolved =>
        LET all_four ==
                /\ pattern_analysis.confidence_score >= 700
                /\ pattern_analysis.likely_iac
                /\ AIVerdict = FALSE
                /\ pattern_analysis.detected_tool \in
                       {T_chef, T_puppet, T_terraform, T_ansible, T_cloudformation}
        IN  /\ result.override_applied <=> all_four
            /\ all_four => result.convertible = TRUE
            /\ ~all_four => result.convertible = AIVerdict

\* the override fires at confidence exactly 0.7
C1_Witness ==
    /\ Resolved
    /\ result.override_applied
    /\ result.convertible
    /\ pattern_analysis.confidence_score = 700
    /\ AIVerdict = FALSE

\* C2: in every result that has left the resolver, and in the data of every successful
\* envelope, override_applied implies that original_ai_decision is recorded as false,
\* that convertible is true, that confidence_source is "pattern_override" and that
\* conversion_notes ends with the override reason (closed by the bracket of the
\* "[Override Applied: ...]" note), which names the detected tool and its confidence
\* to two decimals.
C2_OverrideIsRecorded ==
    /\ (Resolved /\ result.override_applied) =>
          /\ result.original_ai_decision = <<FALSE>>
          /\ result.convertible = TRUE
          /\ result.original_ai_decision # <<result.convertible>>
          /\ result.confidence_source = S_pattern_override
          /\ EndsWith(result.conversion_notes,
                      <<"[","O","v","e","r","r","i","d","e"," ","A","p","p","l","i","e","d",
                        ":"," ">> \o result.override_reason \o <<"]">>)
          /\ Contains(result.override_reason,
                      <<" ">> \o pattern_analysis.detected_tool \o <<" ">>)
          /\ \E h \in 0..100 :
                /\ 10 * h - pattern_analysis.confidence_score \in -5..5
                /\ Contains(result.override_reason,
                            <<"(","s","c","o","r","e",":"," ", Digits[(h \div 100) + 1], ".",
                              Digits[((h \div 10) % 10) + 1], Digits[(h % 10) + 1], ")">>)
    /\ (pc = "store" /\ envelope.success /\ envelope.data[1].override_applied) =>
          /\ envelope.data[1].original_ai_decision = <<FALSE>>
          /\ envelope.data[1].convertible = TRUE
          /\ envelope.data[1].confidence_source = S_pattern_override
          /\ envelope.data[1].override_reason = result.override_reason
          /\ envelope.data[1].conversion_notes = result.conversion_notes

\* an overridden result returned in a successful envelope, the reply having notes
C2_Witness ==
    /\ pc = "store"
    /\ envelope.success
    /\ envelope.data[1].override_applied
    /\ pattern_analysis.confidence_score = 745
    /\ Contains(envelope.data[1].conversion_notes, V_manual)

\* C3: whenever the override does not fire, confidence_source is
\* "ai_with_pattern_context" iff the confidence is at least 0.4, and "ai_only"
\* otherwise; a confidence of 1.0 for a whitelisted tool with an AI verdict that is
\* already convertible gives "ai_with_pattern_context", never "pattern_override".
C3_SourceWithoutOverride ==
    (Resolved /\ ~result.override_applied) =>
        /\ result.confidence_source =
              IF pattern_analysis.confidence_score >= 400
              THEN S_ai_with_pattern_context
              ELSE S_ai_only
        /\ (/\ pattern_analysis.confidence_score = 1000
            /\ pattern_analysis.detected_tool = T_puppet
            /\ AIVerdict = TRUE)
           => result.confidence_source = S_ai_with_pattern_context

\* confidence 1.0 for puppet, the AI verdict already convertible: no override
C3_Witness ==
    /\ Resolved
    /\ ~result.override_applied
    /\ pattern_analysis.confidence_score = 1000
    /\ pattern_analysis.likely_iac
    /\ pattern_analysis.detected_tool = T_puppet
    /\ HasConvertibleYes
    /\ result.confidence_source = S_ai_with_pattern_context

---------------------------------------------------------------------------
(* Properties of the parser, checked under SpecParser *)

ContentSections ==
    {"classification", "summary", "detailed_analysis", "resources", "key_operations",
     "dependencies", "configuration_details", "complexity_level", "convertible",
     "conversion_notes"}

\* some line of the reply opens the section
HasSection(raw, section) ==
    \E k \in DOMAIN NonBlankLines(raw) :
        identify_section_type(NonBlankLines(raw)[k]) = section

\* the defaults the specification documents for missing sections
DocumentedDefaults ==
    [classification |-> <<"u","n","k","n","o","w","n">>,
     summary |-> <<"A","n","a","l","y","s","i","s"," ","c","o","m","p","l","e","t","e","d">>,
     complexity_level |-> <<"M","e","d","i","u","m">>,
     resources |-> <<>>,
     key_operations |-> <<>>,
     dependencies |-> <<"N","o","n","e"," ","s","p","e","c","i","f","i","e","d">>,
     configuration_details |->
         <<"S","t","a","n","d","a","r","d"," ","c","o","n","f","i","g","u","r","a","t","i","o","n">>,
     conversion_notes |->
         <<"S","t","a","n","d","a","r","d"," ","c","o","n","v","e","r","s","i","o","n"," ",
           "a","p","p","r","o","a","c","h"," ","a","p","p","l","i","c","a","b","l","e">>]

\* C4: every section missing from the reply receives its documented default in the
\* classify result, and a reply with no Convertible section is parsed as
\* convertible = false before resolution.
C4_MissingSectionDefaults ==
    /\ (pc = "resolve" /\ ~HasSection(raw_result, "convertible")) =>
          result.convertible = FALSE
    /\ (pc = "store" /\ envelope.success) =>
          \A section \in DOMAIN DocumentedDefaults :
              ~HasSection(raw_result, section) =>
                  envelope.data[1][section] = DocumentedDefaults[section]

\* the first whitespace-delimited token of text is "yes", "true" or "1"
FirstTokenAffirmative(text) ==
    LET rest == LStripChars(text, Whitespace)
    IN  \E n \in 1..Len(rest) :
            /\ SubSeq(rest, 1, n) \in {<<"y","e","s">>, <<"t","r","u","e">>, <<"1">>}
            /\ (n = Len(rest) \/ rest[n + 1] \in Whitespace)

\* C5: the verdict parsed from the text under the Convertible section is affirmative
\* iff the first whitespace-delimited token of the lower-cased text is exactly "yes",
\* "true" or "1" (checked on replies that consist of the Convertible line alone).
C5_FirstTokenDecides ==
    \A t \in ConvertibleTexts :
        (pc = "resolve" /\ raw_result = Labelled(L_Convertible, t)) =>
            (result.convertible <=> FirstTokenAffirmative(Lower(t)))

\* C6: a reply made of the ten labelled sections in order, each with a literal value,
\* is parsed into a result whose fields are exactly those values, the lists being the
\* bullet items in order and convertible the YES/NO given.
C6_RoundTrip ==
    \A v \in ContractValues :
        (pc = "resolve" /\ raw_result = ContractReply(v)) =>
            /\ result.classification = v.classification
            /\ result.summary = v.summary
            /\ result.detailed_analysis = v.detailed_analysis
            /\ result.resources = v.resources
            /\ result.key_operations = v.key_operations
            /\ result.dependencies = v.dependencies
            /\ result.configuration_details = v.configuration_details
            /\ result.complexity_level = v.complexity_level
            /\ result.convertible = (v.convertible = V_YES)
            /\ result.conversion_notes = v.conversion_notes

\* C7: whatever text the collaborator returned, parsing does not raise and gives a
\* result with every field, and the call ends in a successful envelope whose data
\* hold every content field.
C7_ParserTotal ==
    /\ raised = <<>>
    /\ pc # "except"
    /\ pc \in {"resolve", "metrics", "return", "store"} =>
          /\ DOMAIN result = DOMAIN DefaultClassificationResult
          /\ result.convertible \in BOOLEAN
    /\ pc = "store" =>
          /\ envelope.success = TRUE
          /\ envelope.data # <<>>
          /\ ContentSections \subseteq DOMAIN envelope.data[1]
          /\ envelope.data[1].convertible \in BOOLEAN

\* a reply without any label, and one with an empty Convertible section, both end in
\* a successful envelope
C7_Witness ==
    /\ pc = "store"
    /\ envelope.success
    /\ \/ raw_result = V_plain_text
       \/ raw_result = Labelled(L_Convertible, <<>>)

---------------------------------------------------------------------------
(* Properties of validation, checked under SpecInput *)

\* the number of characters from the first to the last one that is not whitespace
TrimmedLen(text) ==
    LET solid == {k \in DOMAIN text : text[k] \notin Whitespace}
    IN  IF solid = {} THEN 0
        ELSE (CHOOSE k \in solid : \A m \in solid : m <= k)
             - (CHOOSE k \in solid : \A m \in solid : k <= m) + 1

\* null, empty, whitespace-only, or at most 5 characters after trimming
InvalidBySpec(text) == text = NoneStr \/ TrimmedLen(text) <= 5

\* C8: classify fails with the invalid-input error exactly when the input is null,
\* empty, whitespace-only or has 5 or fewer characters after trimming; validation
\* rejects no other input.
C8_InvalidInputExactly ==
    /\ pc = "config" => ~InvalidBySpec(code.text)
    /\ pc = "except" =>
          /\ InvalidBySpec(code.text)
          /\ raised = <<[type |-> "ClassificationError",
                         message |-> <<"Invalid or empty code snippet provided">>,
                         cause |-> <<>>]>>
    /\ pc = "store" =>
          /\ InvalidBySpec(code.text)
          /\ envelope.success = FALSE
          /\ envelope.error = << <<"Invalid or empty code snippet provided">> >>

\* a snippet of 5 characters between blanks is rejected
C8_Witness ==
    /\ pc = "except"
    /\ code.text = <<" ","x","x","x","x","x","\n">>

---------------------------------------------------------------------------
(* Properties of get_json_result and batch_classify, checked under Spec *)

\* C9: a failure after validation gives an envelope whose error_type differs from
\* the error_type of an invalid snippet's envelope, so that a caller can tell the two
\* kinds apart.
C9_ErrorTypeTellsKinds ==
    \A j, k \in DOMAIN results :
        (/\ ~results[j].success
         /\ ~results[k].success
         /\ InvalidBySpec(code_snippets[j].text)
         /\ ~InvalidBySpec(code_snippets[k].text))
        => results[j].error_type # results[k].error_type

\* what the collaborator may do with one request
QueryOutcomes ==
    {[kind |-> "text", text |-> r, error |-> <<>>] : r \in Replies}
    \cup {[kind |-> "error", text |-> <<>>, error |-> e] : e \in QueryErrors}

\* the envelope of get_json_result for one snippet classified alone, given what the
\* collaborator does and what the clock reads
ClassifiedAlone(snippet, outcome, duration_ms) ==
    IF ~is_valid_input(snippet.text)
    THEN FailureEnvelope(InvalidInputError)
    ELSE IF outcome.kind = "error"
    THEN FailureEnvelope(WrapError(outcome.error))
    ELSE LET final == make_intelligent_decision(pattern_based_screening(snippet.found),
                                                format_agent_response(outcome.text).value)
             dict == result_to_dict(final)
         IN  SuccessEnvelope([config_source |-> "dynamic_config",
                              instructions_hash |-> Hash(ConfiguredInstructions)]
                             @@ add_performance_metrics(dict, duration_ms) @@ dict)

\* the envelopes that classifying a snippet alone can end in
AloneEnvelopes ==
    [snippet \in Snippets |->
        {ClassifiedAlone(snippet, outcome, duration_ms) :
            outcome \in QueryOutcomes, duration_ms \in Durations}]

\* C10: batch_classify returns one entry per snippet, in input order, entry i tagged
\* batch_index = i and equal to the outcome of classifying snippet i alone; a snippet
\* that fails gives a success=false entry at its own position and the loop goes on.
C10_BatchEntries ==
    /\ Len(results) = i
    /\ i <= Len(code_snippets)
    /\ pc = "batch_done" => Len(results) = Len(code_snippets)
    /\ \A j \in DOMAIN results : results[j].batch_index = j - 1
    /\ pc \in {"batch_loop", "batch_done"} =>
          \A j \in DOMAIN results :
              /\ \E alone \in AloneEnvelopes[code_snippets[j]] :
                    results[j] = [batch_index |-> j - 1] @@ alone
              /\ InvalidBySpec(code_snippets[j].text) =>
                    /\ ~results[j].success
                    /\ results[j].error = << <<"Invalid or empty code snippet provided">> >>

\* a batch whose first snippet is invalid and whose second succeeds
C10_Witness ==
    /\ pc = "batch_done"
    /\ Len(results) = 2
    /\ ~results[1].success
    /\ code_snippets[1].text = <<>>
    /\ results[2].success
    /\ results[2].batch_index = 1

---------------------------------------------------------------------------
(* The shape of the envelope, checked under Spec *)

EnvelopeFields == {"success", "data", "error", "error_type", "timestamp", "version"}

\* success=true iff data is non-null iff error is null
SuccessDataError(e) ==
    /\ e.success <=> (e.data # <<>>)
    /\ e.success <=> (e.error = <<>>)

\* C11: every value returned by get_json_result and every entry of a batch_classify
\* result carries the six fields success, data, error, error_type, timestamp and
\* version, with success=true iff data is non-null iff error is null, and error_type
\* a non-null string exactly when success=false.
C11_EnvelopeShape ==
    \A e \in (IF envelope = <<>> THEN {} ELSE {envelope}) \cup Range(results) :
        /\ EnvelopeFields \subseteq DOMAIN e
        /\ SuccessDataError(e)
        /\ (~e.success) <=> (e.error_type \in STRING)

---------------------------------------------------------------------------
(* The status of the HTTP route, checked under SpecRoute *)

\* the route has answered a request whose classification failed
RouteFailed == pc = "route_done" /\ envelope # <<>> /\ ~envelope.success

\* C12: classify_code answers 400 when classification fails because the input is
\* invalid and 500 when it fails otherwise (the collaborator's call failed on a valid
\* snippet); a collaborator failure is never answered with 400.
C12_RouteStatus ==
    RouteFailed =>
        response[1].status_code =
            IF envelope.error[1] = InvalidInputError.message THEN 400 ELSE 500

---------------------------------------------------------------------------
(* Properties of the screener, checked under SpecScreener *)

\* _pattern_based_screening has returned for the snippet in code
Screened == pc # "screen"

\* score(t): the occurrences of t's patterns plus one per keyword of t that is present
ScoreOf(t) ==
    SumSeq(code.found[t].patterns)
    + Cardinality({k \in DOMAIN code.found[t].keywords : code.found[t].keywords[k] > 0})

BestScore == CHOOSE b \in {ScoreOf(t) : t \in DOMAIN iac_patterns} :
                 \A t \in DOMAIN iac_patterns : ScoreOf(t) <= b

TotalScore == SumSeq([t \in DOMAIN iac_patterns |-> ScoreOf(t)])

\* C13: for every vector of tool scores over the nine tools the confidence_score of
\* the PatternAnalysis lies in [0, 1].
C13_ConfidenceInUnitInterval ==
    Screened =>
        /\ pattern_analysis.confidence_score >= 0
        /\ pattern_analysis.confidence_score <= 1000

\* a tool with more than five hits and nothing else: the strength is capped
C13_Witness ==
    /\ Screened
    /\ BestScore > 5
    /\ pattern_analysis.confidence_score = 1000

\* C14: confidence_score is 0 iff the total score is 0, and exactly then the tool is
\* "unknown" and likely_iac is false; otherwise the tool is one of the rule table and
\* likely_iac is true.
C14_ZeroIffNoMatch ==
    Screened =>
        /\ (pattern_analysis.confidence_score = 0) <=> (TotalScore = 0)
        /\ TotalScore = 0 =>
               /\ pattern_analysis.detected_tool = S_unknown
               /\ ~pattern_analysis.likely_iac
        /\ TotalScore # 0 =>
               /\ pattern_analysis.detected_tool \in AllTools
               /\ pattern_analysis.likely_iac

\* one hit for each of the nine tools: the smallest confidence a match can have
C14_Witness ==
    /\ Screened
    /\ BestScore = 1
    /\ TotalScore = Len(iac_patterns)
    /\ pattern_analysis.confidence_score > 0
    /\ pattern_analysis.confidence_score < 25

\* C15: pattern_matches holds score(t) for every tool, and with best > 0 the
\* confidence is (best / max(total, 1)) * min(best / 5, 1) rounded to the nearest
\* thousandth; 4 pattern hits and 2 keyword hits for puppet alone give total 6 and
\* confidence 1.0.
C15_ConfidenceFormula ==
    Screened =>
        LET c == pattern_analysis.confidence_score
            b == BestScore
            t == IF TotalScore > 1 THEN TotalScore ELSE 1
            exact5t == 1000 * b * (IF b < 5 THEN b ELSE 5)
            diff == IF 5 * t * c >= exact5t THEN 5 * t * c - exact5t ELSE exact5t - 5 * t * c
        IN  /\ \A u \in DOMAIN iac_patterns : pattern_analysis.pattern_matches[u] = ScoreOf(u)
            /\ b > 0 => 2 * diff <= 5 * t
            /\ code.found = PuppetFound => TotalScore = 6 /\ c = 1000

\* the example of the claim, and a snippet that repeats a pattern
C15_Witness ==
    /\ Screened
    /\ code.found = PuppetFound
    /\ pattern_analysis.confidence_score = 1000

---------------------------------------------------------------------------
(* The prompt, checked under SpecScreener *)

\* the collaborator has been asked
Asked == pc \in {"parse", "except"}

\* the first three entries of a list
FirstThree(seq) == SubSeq(seq, 1, IF Len(seq) < 3 THEN Len(seq) ELSE 3)

\* C16: the prompt submitted is the enhanced one iff confidence_score >= 0.3; every
\* enhanced prompt embeds the detected tool, its confidence and up to three indicator
\* labels, whatever the tool; the standard prompt carries no tool hint.
C16_PromptChoice ==
    Asked =>
        LET p == prompt[1]
        IN  /\ (p.template = "enhanced") <=> (pattern_analysis.confidence_score >= 300)
            /\ p.template = "enhanced" =>
                   /\ p.context # <<>>
                   /\ p.context[1].detected_tool = Upper(pattern_analysis.detected_tool)
                   /\ p.context[1].confidence = Fmt2f(pattern_analysis.confidence_score)
                   /\ p.context[1].indicators = FirstThree(pattern_analysis.strongest_indicators)
            /\ p.template = "standard" => p.context = <<>>

---------------------------------------------------------------------------
(* The metrics, checked under SpecMetrics *)

\* classify_and_summarize has built the dict it returns
Measured == pc \in {"return", "store"}

\* the table entry for a classification in ms, or the "unknown" baseline if absent
TableEstimate(classification) ==
    IF \E k \in DOMAIN ManualEstimates : ManualEstimates[k][1] = classification
    THEN MinuteMs * ManualEstimates[CHOOSE k \in DOMAIN ManualEstimates :
                                       ManualEstimates[k][1] = classification][2]
    ELSE MinuteMs * 5

\* C17: speedup is manual_estimate_ms / duration_ms rounded to 2 decimals when
\* duration_ms > 0 and null when duration_ms is 0, manual_estimate_ms being the table
\* entry for the lower-cased classification or the "unknown" baseline; chef (420000 ms)
\* with a duration of 1500 ms gives 280.0.
C17_Speedup ==
    Measured =>
        LET d == result_dict.duration_ms
            m == TableEstimate(Lower(result_dict.classification))
            s == result_dict.speedup
        IN  /\ result_dict.manual_estimate_ms = m
            /\ d = 0 => s = <<>>
            /\ d > 0 =>
                   /\ s # <<>>
                   /\ 2 * s[1] * d - 200 * m <= d
                   /\ 200 * m - 2 * s[1] * d <= d
            /\ Lower(result_dict.classification) = T_chef /\ d = 1500 =>
                   m = 420000 /\ s = <<28000>>

\* the example of the claim, for a reply that spells the tool "Chef"
C17_Witness ==
    /\ Measured
    /\ result_dict.classification = <<"C","h","e","f">>
    /\ result_dict.duration_ms = 1500
    /\ result_dict.speedup = <<28000>>

---------------------------------------------------------------------------
(* What the resolver leaves alone, checked under SpecResolver *)

\* the ClassificationResult the parser produced from the collaborator's answer
Parsed == format_agent_response(raw_result).value

\* C18: in the context-assisted and AI-only branches the resolver changes nothing but
\* confidence_source and the attached pattern_analysis: the verdict, the notes, the
\* override fields (false, empty, null) and every parsed field keep the parser's
\* values; and in all three branches the attached pattern_analysis is the one the
\* screener computed for this call.
C18_ResolverFrame ==
    Resolved =>
        /\ result.pattern_analysis = pattern_analysis
        /\ result.confidence_source \in {S_ai_with_pattern_context, S_ai_only} =>
               /\ result = [Parsed EXCEPT !.confidence_source = result.confidence_source,
                                          !.pattern_analysis = pattern_analysis]
               /\ result.override_applied = FALSE
               /\ result.override_reason = <<>>
               /\ result.original_ai_decision = <<>>

\* high confidence for a tool outside the override list, the AI verdict negative:
\* context-assisted, and the verdict stays negative
C18_Witness ==
    /\ Resolved
    /\ result.confidence_source = S_ai_with_pattern_context
    /\ pattern_analysis.likely_iac
    /\ pattern_analysis.confidence_score >= 700
    /\ Parsed.convertible = FALSE
    /\ result.convertible = FALSE
    /\ result.conversion_notes = V_manual

---------------------------------------------------------------------------
(* Ties between tools, checked under SpecScreener *)

\* the tools that share the highest score
BestTools == {t \in DOMAIN iac_patterns : ScoreOf(t) = BestScore}

\* C19: when two or more tools share the highest non-zero score, detected_tool is the
\* one that comes first in the iteration order of the rule table.
C19_TieFirstInTable ==
    (Screened /\ BestScore > 0 /\ Cardinality(BestTools) >= 2) =>
        \E t \in BestTools :
            /\ pattern_analysis.detected_tool = iac_patterns[t].tool
            /\ \A u \in BestTools : t <= u

\* chef, docker and bash share the highest score: chef is reported
C19_Witness ==
    /\ Screened
    /\ BestScore > 0
    /\ BestTools = {2, 6, 8}
    /\ pattern_analysis.detected_tool = T_chef

---------------------------------------------------------------------------
(* Where a section starts, checked under SpecSections *)

\* the section whose label the line begins with, case-insensitively, after its leading
\* bullet markers and emphasis characters are stripped; NoSection if there is none
LabelledSection(line) ==
    LET stripped == Lower(LStripChars(line, BulletMarkers \cup {"*", "_", " "}))
        hits == {k \in DOMAIN SectionPatterns : StartsWith(stripped, SectionPatterns[k][1])}
    IN  IF hits = {} THEN NoSection
        ELSE SectionPatterns[CHOOSE k \in hits : \A m \in hits : k <= m][2]

RECURSIVE SectionScan(_, _, _, _)
\* the scan in which a line starts a section iff LabelledSection finds a label: the
\* section before it is flushed and a new accumulator seeded with the text after the
\* colon; any other line joins the accumulator; the last section is flushed at the end
SectionScan(lines, res, section, content) ==
    IF lines = <<>>
    THEN IF section # NoSection THEN populate_result_section(res, section, content).value
         ELSE res
    ELSE IF LabelledSection(Head(lines)) # NoSection
    THEN SectionScan(Tail(lines),
                     IF section # NoSection
                     THEN populate_result_section(res, section, content).value ELSE res,
                     LabelledSection(Head(lines)),
                     <<extract_line_value(Head(lines))>>)
    ELSE SectionScan(Tail(lines), res, section,
                     IF section # NoSection THEN Append(content, Head(lines)) ELSE content)

\* C20: a non-blank line starts a section iff, after stripping leading bullet markers
\* (-, the bullet, *) and emphasis characters, it begins case-insensitively with one of
\* the ten labels; such a line flushes the accumulated section and seeds a new
\* accumulator with the text after the colon, any other line is appended, and the
\* last section is flushed at the end of the input.
C20_SectionStart ==
    pc = "resolve" =>
        result = SectionScan(NonBlankLines(raw_result), DefaultClassificationResult,
                             NoSection, <<>>)

---------------------------------------------------------------------------
(* What a section keeps of its accumulated lines, checked under SpecSections *)

RECURSIVE Accumulated(_, _, _, _, _)
\* the lines accumulated for the last section of the kind `section` in the reply: the
\* text after the colon of its label line, then the lines up to the next label line;
\* <<>> if the reply has no such section
Accumulated(lines, section, current_section, current_content, last) ==
    IF lines = <<>>
    THEN IF current_section = section THEN current_content ELSE last
    ELSE IF identify_section_type(Head(lines)) # NoSection
    THEN Accumulated(Tail(lines), section, identify_section_type(Head(lines)),
                     <<extract_line_value(Head(lines))>>,
                     IF current_section = section THEN current_content ELSE last)
    ELSE Accumulated(Tail(lines), section, current_section,
                     IF current_section # NoSection
                     THEN Append(current_content, Head(lines)) ELSE current_content,
                     last)

\* the accumulated lines of a section of the reply that was parsed
AccumulatedOf(section) ==
    Accumulated(NonBlankLines(raw_result), section, NoSection, <<>>, <<>>)

\* C21: for the single-value sections classification and complexity_level the parsed
\* field is the first accumulated line only; continuation lines between the label
\* line and the next label never change either field.
C21_FirstLineOnly ==
    pc = "resolve" =>
        \A section \in {"classification", "complexity_level"} :
            AccumulatedOf(section) # <<>> =>
                result[section] = Strip(AccumulatedOf(section)[1])

---------------------------------------------------------------------------
(* The items of a list section, checked under SpecSections *)

\* a placeholder: a text wrapped in [...]
Bracketed(text) == text # <<>> /\ text[1] = "[" /\ text[Len(text)] = "]"

RECURSIVE ClaimedItems(_)
\* one item per accumulated line, in order: the line without its marker if it has one,
\* the line as is otherwise; empty lines and placeholders give no item
ClaimedItems(content) ==
    IF content = <<>> THEN <<>>
    ELSE LET line == Strip(Head(content))
             body == IF line # <<>> /\ line[1] \in BulletMarkers
                     THEN Strip(Tail(line)) ELSE line
         IN  (IF body = <<>> \/ Bracketed(body) THEN <<>> ELSE <<body>>)
             \o ClaimedItems(Tail(content))

\* C22: in the list sections resources and key_operations every accumulated line
\* that starts with -, the bullet or * becomes one item without its marker, every other
\* non-empty line that is not bracketed becomes an item as is, the items keep the
\* order of the lines, and no placeholder wrapped in [...] is ever an item, with or
\* without a marker in front of it.
C22_ListItems ==
    pc = "resolve" =>
        \A section \in {"resources", "key_operations"} :
            AccumulatedOf(section) # <<>> =>
                /\ result[section] = ClaimedItems(AccumulatedOf(section))
                /\ \A k \in DOMAIN result[section] : ~Bracketed(result[section][k])

---------------------------------------------------------------------------
(* Provenance across the stages, checked under Spec *)

\* C27: whenever the final confidence_source of a classify result is "ai_only", the
\* prompt submitted to the collaborator for that call carried no detected-tool hint
\* (no tool name, confidence or indicator labels).
C27_AiOnlyWithoutHint ==
    (pc = "metrics" /\ result.confidence_source = S_ai_only) => prompt[1].context = <<>>

---------------------------------------------------------------------------
(* The batch is sequential, checked under Spec *)

\* an item's call of get_json_result has begun and its entry is not stored yet
InCall == pc \notin {"batch_loop", "batch_done"}

\* the requests whose item has no entry in results yet
Outstanding == {k \in DOMAIN requests : requests[k].item >= Len(results)}

\* C23: batch_classify is strictly sequential: while the pipeline of an item runs,
\* the entries of all items before it, and of no other item, are stored; at most one
\* request to the collaborator is without a stored entry at any time; and the
\* requests are issued in the order of the snippets, each for its own snippet.
C23_Sequential ==
    /\ Len(results) = i
    /\ InCall => i < Len(code_snippets) /\ code = code_snippets[i + 1]
    /\ Cardinality(Outstanding) <= 1
    /\ Outstanding # {} => InCall
    /\ \A k \in DOMAIN requests :
          /\ requests[k].item < Len(code_snippets)
          /\ requests[k].prompt.code = code_snippets[requests[k].item + 1].text
          /\ \A l \in DOMAIN requests : k < l => requests[k].item < requests[l].item

\* the second item's request is out while the first item's entry, which took a
\* request of its own, is stored
C23_Witness ==
    /\ pc = "await"
    /\ i = 1
    /\ Len(requests) = 2
    /\ code_snippets[1] # code_snippets[2]

---------------------------------------------------------------------------
(* The stages of one call and its one request, checked under Spec *)

\* how many requests the call for item n has sent
RequestsFor(n) == Cardinality({k \in DOMAIN requests : requests[k].item = n})

\* the stage that follows each stage of a call that passed validation
StageOrder ==
    /\ pc = "screen" => pc' = "query"
    /\ pc = "query" => pc' = "await"
    /\ pc = "await" => pc' \in {"parse", "except"}
    /\ pc = "parse" => pc' \in {"resolve", "except"}
    /\ pc = "resolve" => pc' = "metrics"
    /\ pc = "metrics" => pc' = "return"

\* C25: a call that passes validation runs screen, prompt, external call, parse,
\* resolve and metrics in this order and sends exactly one request, with the enhanced
\* or the standard prompt, in its external-call stage; a failed request is not sent
\* again, the resolver sends none, and a call that fails validation sends none.
C25_OneRequest ==
    [][ /\ StageOrder
        /\ requests' # requests =>
              /\ pc = "query"
              /\ requests' = Append(requests, [item |-> i, prompt |-> prompt'[1],
                                               instructions |-> agent.instructions])
              /\ prompt'[1].template \in {"enhanced", "standard"}
        /\ pc' \in {"await", "parse", "resolve", "metrics", "return"} =>
              RequestsFor(i)' = 1
        /\ pc' = "store" =>
              RequestsFor(i)' = IF is_valid_input(code.text) THEN 1 ELSE 0 ]_vars

\* a call whose request failed has ended with its one request
C25_Witness ==
    /\ pc = "store"
    /\ ~envelope.success
    /\ is_valid_input(code.text)
    /\ RequestsFor(i) = 1

---------------------------------------------------------------------------
(* What a high confidence takes, checked under SpecScreener *)

\* C26: for every vector of tool scores, a confidence_score of at least 0.7 means
\* that the detected tool scored at least 4, that no other tool scored when it scored
\* exactly 4, and that likely_iac is true; so no call whose best score is 3 or less
\* ends with override_applied.
C26_HighConfidenceNeedsFour ==
    Screened =>
        /\ pattern_analysis.confidence_score >= OverrideThreshold =>
              /\ BestScore >= 4
              /\ BestScore = 4 => TotalScore = 4
              /\ pattern_analysis.likely_iac
        /\ (pc = "metrics" /\ BestScore <= 3) => ~result.override_applied

\* four hits of one tool and none of another: the confidence is 0.8 and the
\* collaborator's NO is overridden
C26_Witness ==
    /\ pc = "metrics"
    /\ BestScore = 4
    /\ TotalScore = 4
    /\ pattern_analysis.confidence_score = 800
    /\ result.override_applied

---------------------------------------------------------------------------
(* A refused update, checked under SpecConfig *)

\* C30: if update_agent_instructions returns False, for an empty or blank text or
\* for a failed save of the configuration file, the store is unchanged:
\* get_agent_instructions returns the text it returned before the call, so a later
\* classify does not rebuild its agent.
C30_RefusedUpdateKeepsStore ==
    (update # <<>> /\ ~update[1].returned) => instructions = update[1].before

---------------------------------------------------------------------------
(* The marker and the agent, checked under SpecConfig *)

\* the request of the call that is running
ServingRequest == requests[Len(requests)]

\* C29: whatever the writer of the instructions does and whenever it does it, and
\* also when the agent had to be built with the fallback instructions, the
\* instructions_hash of a successful result is the hash of the instructions with
\* which the agent that served the call's request was built.
C29_HashOfServingAgent ==
    pc = "return" => result_dict.instructions_hash = Hash(ServingRequest.instructions)

---------------------------------------------------------------------------
(* A call with invalid input, checked under SpecConfig *)

\* C28: a call with invalid input fails before any other step: from validation to
\* the failure envelope it makes no configuration check and no agent rebuild, sends
\* no request to the collaborator, and leaves the agent and the cached marker as
\* they were.
C28_InvalidInputTouchesNothing ==
    [][ (pc \in {"validate", "except"} /\ ~is_valid_input(code.text)) =>
            /\ pc' \in {"validate", "except", "store"}
            /\ UNCHANGED <<agent, last_instructions_hash, current_hash, requests>> ]_vars

\* an invalid call has ended although the store had changed since the agent was built
C28_Witness ==
    /\ pc = "store"
    /\ ~is_valid_input(code.text)
    /\ Hash(current_instructions(instructions)) # last_instructions_hash
    /\ agent.built = 0
    /\ requests = <<>>

---------------------------------------------------------------------------
(* The configuration check of a call, checked under SpecConfig *)

\* the store was not written since the running call began
NoWriteDuringCall == update = <<>> \/ update[1].during = "batch_loop"

\* C24: a call with valid input compares the current instructions with the cached
\* marker before any other stage and rebuilds the agent iff they differ, after which
\* the marker is the marker of the current instructions; so a change of the
\* instructions made between two calls is in effect for the request of the next
\* call, and a call with unchanged instructions does not rebuild the agent.
C24_CheckAndReload ==
    [][ /\ (pc = "validate" /\ pc' # "validate") => pc' \in {"config", "except"}
        /\ (pc = "config" /\ pc' # "config") =>
              /\ pc' = IF Hash(current_instructions(instructions)) # last_instructions_hash
                       THEN "reload" ELSE "screen"
              /\ UNCHANGED agent
        /\ agent' # agent => pc = "reload"
        /\ (pc = "reload" /\ pc' = "screen") =>
              /\ agent' = Agent(current_instructions(instructions), agent.built + 1)
              /\ last_instructions_hash' = Hash(current_instructions(instructions))
        /\ (requests' # requests /\ NoWriteDuringCall) =>
              requests'[Len(requests')].instructions = current_instructions(instructions)
      ]_vars

====
